---- MODULE Spec2Model ----
(***************************************************************************)
(* Model of the aggregation-and-summary engine of src/detailed.py:         *)
(* get_all_hcps_details, get_filtered_nodes,                               *)
(* get_filtered_edges_for_display and generate_hcp_summary_data, applied   *)
(* to the edge table that main() reads on every rerun.                     *)
(*                                                                         *)
(* A nullable cell of a pandas column is a sequence of length at most one: *)
(* NA (the empty sequence) is a missing value (NaN / None), <<v>> is the   *)
(* value v.  The numbers of the table are integers; the diversity score is *)
(* computed in IEEE 754 double precision, as Python computes it.           *)
(*                                                                         *)
(* The four functions are wrapped in @st.cache_data.  The specifications   *)
(* of the single functions take every call as a cache miss, which runs the *)
(* function's body; SpecCache keeps the cache across reruns.  SpecSession  *)
(* follows st.session_state and the widgets of one browser session.        *)
(***************************************************************************)
EXTENDS Integers, Sequences, FiniteSets, TLC

VARIABLES df, hasMetrics, all_hcps_details, call, result, cache, session

vars == <<df, hasMetrics, all_hcps_details, call, result, cache, session>>

\* Largest number of rows of the edge table.
MaxRows == 2

\* Largest number of rows of the edge table where the connections of one
\* provider are told apart.
MaxDirect == 3

\* The direct connections of the provider whose diversity score is looked at.
MaxMetrics == 11

NA == <<>>

None == [kind |-> "None"]

-----------------------------------------------------------------------------
(* Small helpers over sets and sequences.                                  *)

SetMax(S) == CHOOSE x \in S : \A y \in S : y <= x

SetMin(S) == CHOOSE x \in S : \A y \in S : x <= y

Range(s) == {s[i] : i \in DOMAIN s}

\* The subsequence of s at the positions in idx, in increasing position order.
RECURSIVE Take(_, _)
Take(s, idx) ==
    IF idx = {} THEN <<>>
    ELSE LET i == SetMin(idx) IN <<s[i]>> \o Take(s, idx \ {i})

\* The elements of a finite set of integers in ascending order.
RECURSIVE Ascending(_)
Ascending(S) ==
    IF S = {} THEN <<>>
    ELSE LET m == SetMin(S) IN <<m>> \o Ascending(S \ {m})

-----------------------------------------------------------------------------
(* 1. get_all_hcps_details                                                 *)

\* df[hcp1_cols] renamed to common_cols: the side-1 view of an edge row.
hcp1_renamed(row) ==
    [NPI |-> row.NPI_1, hcp_name |-> row.HCP_1, connections |-> row.Connections_1,
     influence |-> row.Influence_1, city |-> row.City1, state |-> row.State1,
     papers |-> row.Papers, panels |-> row.Panels, trials |-> row.Trials]

\* df[hcp2_cols] renamed to common_cols: the side-2 view of an edge row.
hcp2_renamed(row) ==
    [NPI |-> row.NPI_2, hcp_name |-> row.HCP_2, connections |-> row.Connections_2,
     influence |-> row.Influence_2, city |-> row.City2, state |-> row.State2,
     papers |-> row.Papers, panels |-> row.Panels, trials |-> row.Trials]

\* Mutant of ConcatSides: the side-2 views are left out.
ConcatSide1Only(t) == [i \in 1..Len(t) |-> hcp1_renamed(t[i])]

\* Mutant of ConcatSides: the two views of a row follow each other.
ConcatSidesRowMajor(t) ==
    [i \in 1..(2 * Len(t)) |->
        IF i % 2 = 1 THEN hcp1_renamed(t[(i + 1) \div 2]) ELSE hcp2_renamed(t[i \div 2])]

\* pd.concat([hcp1_renamed, hcp2_renamed]): all side-1 views in row order,
\* then all side-2 views in row order.
ConcatSides(t) ==
    [i \in 1..(2 * Len(t)) |->
        IF i <= Len(t) THEN hcp1_renamed(t[i]) ELSE hcp2_renamed(t[i - Len(t)])]

\* groupby('NPI'): the group keys are the non-missing ids (dropna), ascending.
GroupKeys(obs) == {obs[i].NPI : i \in DOMAIN obs} \ {NA}

\* The observations of one id, in the order of the combined sequence.
Group(obs, key) == Take(obs, {i \in DOMAIN obs : obs[i].NPI = key})

\* The cells of one column of a group.
Column(g, col) == [i \in DOMAIN g |-> g[i][col]]

\* Mutant of AggMax: the reducer is 'min'.
AggMin(cells) ==
    LET present == {c[1] : c \in Range(cells) \ {NA}}
    IN  IF present = {} THEN NA ELSE <<SetMin(present)>>

\* 'max': the largest non-missing cell, missing when every cell is missing.
AggMax(cells) ==
    LET present == {c[1] : c \in Range(cells) \ {NA}}
    IN  IF present = {} THEN NA ELSE <<SetMax(present)>>

\* 'first': GroupBy.first skips missing cells, column by column.
AggFirst(cells) ==
    LET present == {i \in DOMAIN cells : cells[i] # NA}
    IN  IF present = {} THEN NA ELSE cells[SetMin(present)]

\* lambda x: x.dropna().iloc[0] if not x.dropna().empty else 'N/A'
AggName(cells) ==
    LET present == {i \in DOMAIN cells : cells[i] # NA}
    IN  IF present = {} THEN <<"N/A">> ELSE cells[SetMin(present)]

\* lambda x: x.fillna(0).max()
AggFillnaMax(cells) ==
    <<SetMax({IF c = NA THEN 0 ELSE c[1] : c \in Range(cells)})>>

\* .agg(...): one ProviderNode per group.
AggregateGroup(g, key) ==
    [NPI |-> key,
     hcp_name |-> AggName(Column(g, "hcp_name")),
     connections |-> AggMax(Column(g, "connections")),
     influence |-> AggFirst(Column(g, "influence")),
     city |-> AggFirst(Column(g, "city")),
     state |-> AggFirst(Column(g, "state")),
     papers |-> AggFillnaMax(Column(g, "papers")),
     panels |-> AggFillnaMax(Column(g, "panels")),
     trials |-> AggFillnaMax(Column(g, "trials"))]

\* hcp1_cols and hcp2_cols
hcp_cols ==
    {"NPI_1", "HCP_1", "Connections_1", "Influence_1", "City1", "State1",
     "NPI_2", "HCP_2", "Connections_2", "Influence_2", "City2", "State2",
     "Papers", "Panels", "Trials"}

\* The columns of the table: the fields of its rows.  (The rows of a table
\* have the same fields; of a table without rows only the header is left,
\* which is taken to be complete.)
Columns(t) == IF t = <<>> THEN hcp_cols ELSE DOMAIN t[1]

\* df[hcp1_cols], df[hcp2_cols]: selecting a column that the table lacks
\* raises KeyError, which names the columns not found.
KeyError(columns) == [kind |-> "raise", error |-> "KeyError", columns |-> columns]

get_all_hcps_details(t) ==
    IF hcp_cols \ Columns(t) # {} THEN KeyError(hcp_cols \ Columns(t))
    ELSE LET obs == ConcatSides(t)
             keys == Ascending({k[1] : k \in GroupKeys(obs)})
         IN  [i \in DOMAIN keys |-> AggregateGroup(Group(obs, <<keys[i]>>), <<keys[i]>>)]

-----------------------------------------------------------------------------
(* 2. get_filtered_nodes                                                   *)

\* series >= minimum: a comparison with a missing cell is False.
GeStrict(cell, minimum) == cell # NA /\ cell[1] > minimum

Ge(cell, minimum) == cell # NA /\ cell[1] >= minimum

\* series.isin(values): a missing cell is in no list the selectors offer.
IsIn(cell, values) == cell # NA /\ cell[1] \in values

\* if selected_states: df[df['state'].isin(selected_states)]
FilterStates(nodes, selected_states) ==
    IF selected_states # {}
    THEN LET Keep(n) == IsIn(n.state, selected_states) IN Take(nodes, {i \in DOMAIN nodes : Keep(nodes[i])})
    ELSE nodes

\* if selected_cities: df[df['city'].isin(selected_cities)]
FilterCities(nodes, selected_cities) ==
    IF selected_cities # {}
    THEN LET Keep(n) == IsIn(n.city, selected_cities) IN Take(nodes, {i \in DOMAIN nodes : Keep(nodes[i])})
    ELSE nodes

\* Mutant of FilterThresholds: the connections threshold is left out.
FilterThresholdsNoConnections(nodes, min_connections, min_influence, min_papers, min_panels, min_trials) ==
    LET Keep(n) == /\ Ge(n.influence, min_influence)
                   /\ Ge(n.papers, min_papers)
                   /\ Ge(n.panels, min_panels)
                   /\ Ge(n.trials, min_trials)
    IN  Take(nodes, {i \in DOMAIN nodes : Keep(nodes[i])})

\* Mutant of FilterThresholds: the trials threshold is left out.
FilterThresholdsNoTrials(nodes, min_connections, min_influence, min_papers, min_panels, min_trials) ==
    LET Keep(n) == /\ Ge(n.connections, min_connections)
                   /\ Ge(n.influence, min_influence)
                   /\ Ge(n.papers, min_papers)
                   /\ Ge(n.panels, min_panels)
    IN  Take(nodes, {i \in DOMAIN nodes : Keep(nodes[i])})

\* Mutant of FilterThresholds: the bounds are exclusive.
FilterThresholdsStrict(nodes, min_connections, min_influence, min_papers, min_panels, min_trials) ==
    LET Keep(n) == /\ GeStrict(n.connections, min_connections)
                   /\ GeStrict(n.influence, min_influence)
                   /\ GeStrict(n.papers, min_papers)
                   /\ GeStrict(n.panels, min_panels)
                   /\ GeStrict(n.trials, min_trials)
    IN  Take(nodes, {i \in DOMAIN nodes : Keep(nodes[i])})

\* The five inclusive lower bounds, combined with &.
FilterThresholds(nodes, min_connections, min_influence, min_papers, min_panels, min_trials) ==
    LET Keep(n) == /\ Ge(n.connections, min_connections)
                   /\ Ge(n.influence, min_influence)
                   /\ Ge(n.papers, min_papers)
                   /\ Ge(n.panels, min_panels)
                   /\ Ge(n.trials, min_trials)
    IN  Take(nodes, {i \in DOMAIN nodes : Keep(nodes[i])})

\* The positions of t in the order of nlargest: rows with a value before rows
\* without, larger values first, equal values in table order (keep='first').
RECURSIVE LargestFirst(_, _, _)
LargestFirst(t, column, todo) ==
    IF todo = {} THEN <<>>
    ELSE LET valued == {i \in todo : t[i][column] # NA}
             top == IF valued = {} THEN todo
                    ELSE {i \in valued : \A j \in valued : t[j][column][1] <= t[i][column][1]}
             i == SetMin(top)
         IN  <<i>> \o LargestFirst(t, column, todo \ {i})

\* Mutant of nlargest: among equal values the later rows are kept (keep='last').
RECURSIVE LargestFirstKeepLast(_, _, _)
LargestFirstKeepLast(t, column, todo) ==
    IF todo = {} THEN <<>>
    ELSE LET valued == {i \in todo : t[i][column] # NA}
             top == IF valued = {} THEN todo
                    ELSE {i \in valued : \A j \in valued : t[j][column][1] <= t[i][column][1]}
             i == SetMax(top)
         IN  <<i>> \o LargestFirstKeepLast(t, column, todo \ {i})

nlargestKeepLast(t, n, column) ==
    LET order == LargestFirstKeepLast(t, column, DOMAIN t)
    IN  [k \in 1..(IF n < Len(t) THEN n ELSE Len(t)) |-> t[order[k]]]

\* DataFrame.nlargest(n, column)
nlargest(t, n, column) ==
    LET order == LargestFirst(t, column, DOMAIN t)
    IN  [k \in 1..(IF n < Len(t) THEN n ELSE Len(t)) |-> t[order[k]]]

get_filtered_nodes(nodes, top_n, selected_states, selected_cities, min_connections, min_influence, min_papers, min_panels, min_trials, sort_by) ==
    LET by_state == FilterStates(nodes, selected_states)
        by_city == FilterCities(by_state, selected_cities)
        filtered_nodes_df == FilterThresholds(by_city, min_connections, min_influence,
                                              min_papers, min_panels, min_trials)
    IN  IF filtered_nodes_df # <<>>
        THEN nlargest(filtered_nodes_df,
                      IF top_n < Len(filtered_nodes_df) THEN top_n
                      ELSE Len(filtered_nodes_df),
                      sort_by)
        ELSE <<>>

-----------------------------------------------------------------------------
(* 3. get_filtered_edges_for_display                                       *)

\* series <= maximum: a comparison with a missing cell is False.
Le(cell, maximum) == cell # NA /\ cell[1] <= maximum

\* Mutant of get_filtered_edges_for_display: one endpoint in the id list is
\* enough (| instead of & between the two isin masks).
get_filtered_edges_either_endpoint(original_df, filtered_node_npis, min_strength, max_strength) ==
    IF filtered_node_npis = {} THEN <<>>
    ELSE LET Keep(e) == /\ \/ IsIn(e.NPI_1, filtered_node_npis)
                           \/ IsIn(e.NPI_2, filtered_node_npis)
                        /\ Ge(e.Strength, min_strength)
                        /\ Le(e.Strength, max_strength)
         IN  Take(original_df, {i \in DOMAIN original_df : Keep(original_df[i])})

get_filtered_edges_for_display(original_df, filtered_node_npis, min_strength, max_strength) ==
    IF filtered_node_npis = {} THEN <<>>
    ELSE LET Keep(e) == /\ IsIn(e.NPI_1, filtered_node_npis)
                        /\ IsIn(e.NPI_2, filtered_node_npis)
                        /\ Ge(e.Strength, min_strength)
                        /\ Le(e.Strength, max_strength)
         IN  Take(original_df, {i \in DOMAIN original_df : Keep(original_df[i])})

-----------------------------------------------------------------------------
(* 4. generate_hcp_summary_data                                            *)

\* An exception leaving the function.
Raise(error) == [kind |-> "raise", error |-> error]

\* Python floats are IEEE 754 doubles.  A double is kept as its sign, its
\* 53-bit significand m (a whole number, as limbs base 2^14, lowest first) and
\* its exponent e: the value is m * 2^e, and zero has no limbs.  The values
\* that occur are far from the subnormal and the overflow range.
Base == 16384

Float0 == [neg |-> FALSE, m |-> <<>>, e |-> 0]

\* Whole numbers as limbs: the lowest limb first, no zero limb at the top.
RECURSIVE Trim(_)
Trim(a) == IF a # <<>> /\ a[Len(a)] = 0 THEN Trim(SubSeq(a, 1, Len(a) - 1)) ELSE a

Limb(a, i) == IF i <= Len(a) THEN a[i] ELSE 0

RECURSIVE BigOf(_)
BigOf(n) == IF n = 0 THEN <<>> ELSE <<n % Base>> \o BigOf(n \div Base)

RECURSIVE AddLimbs(_, _, _, _)
AddLimbs(a, b, i, carry) ==
    IF i > Len(a) /\ i > Len(b) THEN (IF carry = 0 THEN <<>> ELSE <<carry>>)
    ELSE LET s == Limb(a, i) + Limb(b, i) + carry
         IN  <<s % Base>> \o AddLimbs(a, b, i + 1, s \div Base)

BigAdd(a, b) == AddLimbs(a, b, 1, 0)

\* a - b for a >= b.
RECURSIVE SubLimbs(_, _, _, _)
SubLimbs(a, b, i, borrow) ==
    IF i > Len(a) THEN <<>>
    ELSE LET d == Limb(a, i) - Limb(b, i) - borrow
         IN  <<(d + Base) % Base>> \o SubLimbs(a, b, i + 1, IF d < 0 THEN 1 ELSE 0)

BigSub(a, b) == Trim(SubLimbs(a, b, 1, 0))

\* a < b, from the top limb down.
RECURSIVE LessFrom(_, _, _)
LessFrom(a, b, i) ==
    IF i = 0 THEN FALSE
    ELSE IF a[i] # b[i] THEN a[i] < b[i]
    ELSE LessFrom(a, b, i - 1)

BigLess(a, b) == IF Len(a) # Len(b) THEN Len(a) < Len(b) ELSE LessFrom(a, b, Len(a))

\* a * k for 0 <= k < Base.
RECURSIVE MulLimbs(_, _, _, _)
MulLimbs(a, k, i, carry) ==
    IF i > Len(a) THEN (IF carry = 0 THEN <<>> ELSE <<carry>>)
    ELSE LET s == a[i] * k + carry
         IN  <<s % Base>> \o MulLimbs(a, k, i + 1, s \div Base)

MulSmall(a, k) == Trim(MulLimbs(a, k, 1, 0))

\* a div k for 0 < k < Base, from the top limb down.
RECURSIVE DivLimbs(_, _, _, _)
DivLimbs(a, k, i, rem) ==
    IF i = 0 THEN <<>>
    ELSE LET cur == rem * Base + a[i]
         IN  DivLimbs(a, k, i - 1, cur % k) \o <<cur \div k>>

DivSmall(a, k) == Trim(DivLimbs(a, k, Len(a), 0))

ZeroLimbs(n) == [i \in 1..n |-> 0]

RECURSIVE MulFrom(_, _, _)
MulFrom(a, b, j) ==
    IF j > Len(b) THEN <<>>
    ELSE BigAdd(Trim(ZeroLimbs(j - 1) \o MulSmall(a, b[j])), MulFrom(a, b, j + 1))

BigMul(a, b) == MulFrom(a, b, 1)

\* a * 2^s and a div 2^s.
ShiftLeft(a, s) == Trim(ZeroLimbs(s \div 14) \o MulSmall(a, 2^(s % 14)))

ShiftRight(a, s) ==
    IF s \div 14 >= Len(a) THEN <<>>
    ELSE DivSmall(SubSeq(a, s \div 14 + 1, Len(a)), 2^(s % 14))

\* a is not a multiple of 2^s.
LowBitsSet(a, s) ==
    \/ \E i \in 1..(s \div 14) : Limb(a, i) # 0
    \/ Limb(a, s \div 14 + 1) % 2^(s % 14) # 0

RECURSIVE Bits(_)
Bits(n) == IF n = 0 THEN 0 ELSE 1 + Bits(n \div 2)

\* The number of bits of a > 0.
BitLength(a) == 14 * (Len(a) - 1) + Bits(a[Len(a)])

\* The double nearest to m * 2^e, ties to the even significand, for m > 0;
\* with inexact, to a value a little above m * 2^e (m has 55 bits or more).
RoundToDouble(neg, m, e, inexact) ==
    LET n == BitLength(m)
    IN  IF n <= 53 THEN [neg |-> neg, m |-> ShiftLeft(m, 53 - n), e |-> e - (53 - n)]
        ELSE LET s == n - 53
                 kept == ShiftRight(m, s - 1)
                 half == kept[1] % 2 = 1
                 below == inexact \/ LowBitsSet(m, s - 1)
                 q == DivSmall(kept, 2)
                 up == half /\ (below \/ q[1] % 2 = 1)
                 r == IF up THEN BigAdd(q, <<1>>) ELSE q
             IN  IF BitLength(r) = 54
                 THEN [neg |-> neg, m |-> DivSmall(r, 2), e |-> e + s + 1]
                 ELSE [neg |-> neg, m |-> r, e |-> e + s]

\* float(n) for a whole number n >= 0.
FloatOf(n) == IF n = 0 THEN Float0 ELSE RoundToDouble(FALSE, BigOf(n), 0, FALSE)

\* x * y
FloatMul(x, y) ==
    IF x.m = <<>> \/ y.m = <<>> THEN Float0
    ELSE RoundToDouble(x.neg # y.neg, BigMul(x.m, y.m), x.e + y.e, FALSE)

\* x + y for x and y of the same sign, or one of them zero: the terms of the
\* entropy sum are all negative or zero.
FloatAdd(x, y) ==
    IF x.m = <<>> THEN y
    ELSE IF y.m = <<>> THEN x
    ELSE IF x.e >= y.e
    THEN RoundToDouble(x.neg, BigAdd(ShiftLeft(x.m, x.e - y.e), y.m), y.e, FALSE)
    ELSE RoundToDouble(x.neg, BigAdd(ShiftLeft(y.m, y.e - x.e), x.m), x.e, FALSE)

\* -x
FloatNeg(x) == IF x.m = <<>> THEN x ELSE [x EXCEPT !.neg = ~x.neg]

\* Quotient: long division in base 2^14 of r * Base^steps by d, for r < d and d of four
\* limbs with the top bit of its top limb set: each digit is estimated from
\* the top limbs (never too low, at most 2 too high) and corrected.
RECURSIVE Digit(_, _, _)
Digit(r, d, estimate) ==
    IF BigLess(r, MulSmall(d, estimate)) THEN Digit(r, d, estimate - 1) ELSE estimate

RECURSIVE Quotient(_, _, _)
Quotient(r, d, steps) ==
    IF steps = 0 THEN [q |-> <<>>, inexact |-> r # <<>>]
    ELSE LET shifted == IF r = <<>> THEN r ELSE <<0>> \o r
             top == (Limb(shifted, 5) * Base + Limb(shifted, 4)) \div d[4]
             digit == Digit(shifted, d, IF top < Base THEN top ELSE Base - 1)
             rest == Quotient(BigSub(shifted, MulSmall(d, digit)), d, steps - 1)
         IN  [q |-> Trim(rest.q \o ZeroLimbs(steps - 1 - Len(rest.q)) \o <<digit>>),
              inexact |-> rest.inexact]

\* x / y; a zero divisor raises ZeroDivisionError.  The significand of y is
\* shifted by 3 bits to fill four limbs, and five digits give the quotient
\* with 67 or 68 bits.
Divide(x, y) ==
    IF y.m = <<>> THEN [raised |-> TRUE, value |-> Float0]
    ELSE IF x.m = <<>> THEN [raised |-> FALSE, value |-> Float0]
    ELSE LET d == Quotient(x.m, MulSmall(y.m, 8), 5)
         IN  [raised |-> FALSE,
              value |-> RoundToDouble(x.neg # y.neg, d.q, x.e - y.e - 67, d.inexact)]

\* x > y for x, y >= 0
FloatGt(x, y) ==
    /\ x.m # <<>>
    /\ \/ y.m = <<>>
       \/ x.e > y.e
       \/ x.e = y.e /\ BigLess(y.m, x.m)

Log2Table ==
    { [x |-> [neg |-> FALSE, m |-> <<15124, 3780, 5041, 1260>>, e |-> -56],
       y |-> [neg |-> TRUE, m |-> <<8755, 3655, 10242, 1894>>, e |-> -51]],
      [x |-> [neg |-> FALSE, m |-> <<5461, 5461, 5461, 1365>>, e |-> -56],
       y |-> [neg |-> TRUE, m |-> <<7860, 1855, 8205, 1835>>, e |-> -51]],
      [x |-> [neg |-> FALSE, m |-> <<5958, 4468, 7447, 1489>>, e |-> -56],
       y |-> [neg |-> TRUE, m |-> <<7490, 12313, 3751, 1771>>, e |-> -51]],
      [x |-> [neg |-> FALSE, m |-> <<6554, 9830, 6553, 1638>>, e |-> -56],
       y |-> [neg |-> TRUE, m |-> <<9073, 9702, 13552, 1700>>, e |-> -51]],
      [x |-> [neg |-> FALSE, m |-> <<1820, 12743, 7281, 1820>>, e |-> -56],
       y |-> [neg |-> TRUE, m |-> <<15721, 3710, 26, 1623>>, e |-> -51]],
      [x |-> [neg |-> FALSE, m |-> <<0, 0, 0, 1024>>, e |-> -55],
       y |-> [neg |-> TRUE, m |-> <<0, 0, 0, 1536>>, e |-> -51]],
      [x |-> [neg |-> FALSE, m |-> <<9362, 2340, 4681, 1170>>, e |-> -55],
       y |-> [neg |-> TRUE, m |-> <<1069, 15696, 5991, 1437>>, e |-> -51]],
      [x |-> [neg |-> FALSE, m |-> <<15124, 3780, 5041, 1260>>, e |-> -55],
       y |-> [neg |-> TRUE, m |-> <<8755, 3655, 10242, 1382>>, e |-> -51]],
      [x |-> [neg |-> FALSE, m |-> <<5461, 5461, 5461, 1365>>, e |-> -55],
       y |-> [neg |-> TRUE, m |-> <<7860, 1855, 8205, 1323>>, e |-> -51]],
      [x |-> [neg |-> FALSE, m |-> <<5958, 4468, 7447, 1489>>, e |-> -55],
       y |-> [neg |-> TRUE, m |-> <<7490, 12313, 3751, 1259>>, e |-> -51]],
      [x |-> [neg |-> FALSE, m |-> <<6554, 9830, 6553, 1638>>, e |-> -55],
       y |-> [neg |-> TRUE, m |-> <<9073, 9702, 13552, 1188>>, e |-> -51]],
      [x |-> [neg |-> FALSE, m |-> <<1820, 12743, 7281, 1820>>, e |-> -55],
       y |-> [neg |-> TRUE, m |-> <<15721, 3710, 26, 1111>>, e |-> -51]],
      [x |-> [neg |-> FALSE, m |-> <<6302, 13863, 7561, 1890>>, e |-> -55],
       y |-> [neg |-> TRUE, m |-> <<895, 1800, 2037, 1083>>, e |-> -51]],
      [x |-> [neg |-> FALSE, m |-> <<0, 0, 0, 1024>>, e |-> -54],
       y |-> [neg |-> TRUE, m |-> <<0, 0, 0, 1024>>, e |-> -51]],
      [x |-> [neg |-> FALSE, m |-> <<4468, 7447, 1489, 1117>>, e |-> -54],
       y |-> [neg |-> TRUE, m |-> <<15644, 4531, 7477, 1919>>, e |-> -52]],
      [x |-> [neg |-> FALSE, m |-> <<9362, 2340, 4681, 1170>>, e |-> -54],
       y |-> [neg |-> TRUE, m |-> <<2138, 15008, 11983, 1850>>, e |-> -52]],
      [x |-> [neg |-> FALSE, m |-> <<13107, 3276, 13107, 1228>>, e |-> -54],
       y |-> [neg |-> TRUE, m |-> <<2427, 15694, 10694, 1778>>, e |-> -52]],
      [x |-> [neg |-> FALSE, m |-> <<15124, 3780, 5041, 1260>>, e |-> -54],
       y |-> [neg |-> TRUE, m |-> <<1126, 7311, 4100, 1741>>, e |-> -52]],
      [x |-> [neg |-> FALSE, m |-> <<5461, 5461, 5461, 1365>>, e |-> -54],
       y |-> [neg |-> TRUE, m |-> <<15721, 3710, 26, 1623>>, e |-> -52]],
      [x |-> [neg |-> FALSE, m |-> <<5958, 4468, 7447, 1489>>, e |-> -54],
       y |-> [neg |-> TRUE, m |-> <<14980, 8242, 7503, 1494>>, e |-> -52]],
      [x |-> [neg |-> FALSE, m |-> <<0, 0, 0, 1536>>, e |-> -54],
       y |-> [neg |-> TRUE, m |-> <<664, 12673, 16357, 1448>>, e |-> -52]],
      [x |-> [neg |-> FALSE, m |-> <<2521, 8822, 6301, 1575>>, e |-> -54],
       y |-> [neg |-> TRUE, m |-> <<15747, 4289, 9763, 1411>>, e |-> -52]],
      [x |-> [neg |-> FALSE, m |-> <<6554, 9830, 6553, 1638>>, e |-> -54],
       y |-> [neg |-> TRUE, m |-> <<1762, 3021, 10721, 1353>>, e |-> -52]],
      [x |-> [neg |-> FALSE, m |-> <<10923, 10922, 10922, 1706>>, e |-> -54],
       y |-> [neg |-> TRUE, m |-> <<13957, 689, 5689, 1293>>, e |-> -52]],
      [x |-> [neg |-> FALSE, m |-> <<14043, 11702, 7021, 1755>>, e |-> -54],
       y |-> [neg |-> TRUE, m |-> <<2802, 11297, 11957, 1251>>, e |-> -52]],
      [x |-> [neg |-> FALSE, m |-> <<1820, 12743, 7281, 1820>>, e |-> -54],
       y |-> [neg |-> TRUE, m |-> <<15057, 7421, 52, 1198>>, e |-> -52]],
      [x |-> [neg |-> FALSE, m |-> <<7447, 1489, 13405, 1861>>, e |-> -54],
       y |-> [neg |-> TRUE, m |-> <<13217, 5221, 13166, 1164>>, e |-> -52]],
      [x |-> [neg |-> FALSE, m |-> <<6302, 13863, 7561, 1890>>, e |-> -54],
       y |-> [neg |-> TRUE, m |-> <<1789, 3600, 4074, 1142>>, e |-> -52]],
      [x |-> [neg |-> FALSE, m |-> <<0, 0, 0, 1024>>, e |-> -53],
       y |-> [neg |-> TRUE, m |-> <<0, 0, 0, 1024>>, e |-> -52]],
      [x |-> [neg |-> FALSE, m |-> <<5041, 1260, 12603, 1102>>, e |-> -53],
       y |-> [neg |-> TRUE, m |-> <<14361, 989, 617, 1829>>, e |-> -53]],
      [x |-> [neg |-> FALSE, m |-> <<4468, 7447, 1489, 1117>>, e |-> -53],
       y |-> [neg |-> TRUE, m |-> <<14904, 9063, 14954, 1790>>, e |-> -53]],
      [x |-> [neg |-> FALSE, m |-> <<7282, 1820, 12743, 1137>>, e |-> -53],
       y |-> [neg |-> TRUE, m |-> <<10204, 8801, 11430, 1736>>, e |-> -53]],
      [x |-> [neg |-> FALSE, m |-> <<9362, 2340, 4681, 1170>>, e |-> -53],
       y |-> [neg |-> TRUE, m |-> <<4276, 13632, 7583, 1653>>, e |-> -53]],
      [x |-> [neg |-> FALSE, m |-> <<10923, 10922, 10922, 1194>>, e |-> -53],
       y |-> [neg |-> TRUE, m |-> <<10781, 10173, 8852, 1592>>, e |-> -53]],
      [x |-> [neg |-> FALSE, m |-> <<13107, 3276, 13107, 1228>>, e |-> -53],
       y |-> [neg |-> TRUE, m |-> <<4853, 15004, 5005, 1509>>, e |-> -53]],
      [x |-> [neg |-> FALSE, m |-> <<15124, 3780, 5041, 1260>>, e |-> -53],
       y |-> [neg |-> TRUE, m |-> <<2251, 14622, 8200, 1434>>, e |-> -53]],
      [x |-> [neg |-> FALSE, m |-> <<0, 0, 0, 1280>>, e |-> -53],
       y |-> [neg |-> TRUE, m |-> <<12859, 10341, 11325, 1388>>, e |-> -53]],
      [x |-> [neg |-> FALSE, m |-> <<13405, 5957, 4468, 1303>>, e |-> -53],
       y |-> [neg |-> TRUE, m |-> <<9300, 2853, 7423, 1335>>, e |-> -53]],
      [x |-> [neg |-> FALSE, m |-> <<5461, 5461, 5461, 1365>>, e |-> -53],
       y |-> [neg |-> TRUE, m |-> <<15058, 7421, 52, 1198>>, e |-> -53]],
      [x |-> [neg |-> FALSE, m |-> <<8822, 6301, 13863, 1417>>, e |-> -53],
       y |-> [neg |-> TRUE, m |-> <<4906, 16162, 8095, 1086>>, e |-> -53]],
      [x |-> [neg |-> FALSE, m |-> <<9830, 6553, 9830, 1433>>, e |-> -53],
       y |-> [neg |-> TRUE, m |-> <<15635, 8793, 13858, 1053>>, e |-> -53]],
      [x |-> [neg |-> FALSE, m |-> <<11703, 7021, 14043, 1462>>, e |-> -53],
       y |-> [neg |-> TRUE, m |-> <<1499, 15180, 5050, 1988>>, e |-> -54]],
      [x |-> [neg |-> FALSE, m |-> <<5958, 4468, 7447, 1489>>, e |-> -53],
       y |-> [neg |-> TRUE, m |-> <<10766, 203, 13630, 1881>>, e |-> -54]],
      [x |-> [neg |-> FALSE, m |-> <<0, 0, 0, 1536>>, e |-> -53],
       y |-> [neg |-> TRUE, m |-> <<2654, 1540, 16279, 1699>>, e |-> -54]],
      [x |-> [neg |-> FALSE, m |-> <<2521, 8822, 6301, 1575>>, e |-> -53],
       y |-> [neg |-> TRUE, m |-> <<13835, 775, 6285, 1550>>, e |-> -54]],
      [x |-> [neg |-> FALSE, m |-> <<3641, 9102, 14563, 1592>>, e |-> -53],
       y |-> [neg |-> TRUE, m |-> <<2525, 2423, 1426, 1485>>, e |-> -54]],
      [x |-> [neg |-> FALSE, m |-> <<6554, 9830, 6553, 1638>>, e |-> -53],
       y |-> [neg |-> TRUE, m |-> <<7050, 12084, 10116, 1318>>, e |-> -54]],
      [x |-> [neg |-> FALSE, m |-> <<14895, 2978, 10426, 1675>>, e |-> -53],
       y |-> [neg |-> TRUE, m |-> <<16074, 3283, 13420, 1185>>, e |-> -54]],
      [x |-> [neg |-> FALSE, m |-> <<10923, 10922, 10922, 1706>>, e |-> -53],
       y |-> [neg |-> TRUE, m |-> <<6678, 2759, 6372, 1077>>, e |-> -54]],
      [x |-> [neg |-> FALSE, m |-> <<12603, 11342, 15123, 1732>>, e |-> -53],
       y |-> [neg |-> TRUE, m |-> <<3858, 8929, 5543, 1974>>, e |-> -55]],
      [x |-> [neg |-> FALSE, m |-> <<14043, 11702, 7021, 1755>>, e |-> -53],
       y |-> [neg |-> TRUE, m |-> <<6029, 8457, 13741, 1821>>, e |-> -55]],
      [x |-> [neg |-> FALSE, m |-> <<0, 0, 0, 1792>>, e |-> -53],
       y |-> [neg |-> TRUE, m |-> <<15666, 11006, 2432, 1578>>, e |-> -55]],
      [x |-> [neg |-> FALSE, m |-> <<1820, 12743, 7281, 1820>>, e |-> -53],
       y |-> [neg |-> TRUE, m |-> <<5771, 10223, 419, 1392>>, e |-> -55]],
      [x |-> [neg |-> FALSE, m |-> <<3277, 13107, 3276, 1843>>, e |-> -53],
       y |-> [neg |-> TRUE, m |-> <<8333, 13945, 3429, 1245>>, e |-> -55]],
      [x |-> [neg |-> FALSE, m |-> <<7447, 1489, 13405, 1861>>, e |-> -53],
       y |-> [neg |-> TRUE, m |-> <<7434, 9006, 7026, 1126>>, e |-> -55]],
      [x |-> [neg |-> FALSE, m |-> <<5461, 5461, 5461, 1877>>, e |-> -53],
       y |-> [neg |-> TRUE, m |-> <<5928, 12896, 5717, 1028>>, e |-> -55]],
      [x |-> [neg |-> FALSE, m |-> <<6302, 13863, 7561, 1890>>, e |-> -53],
       y |-> [neg |-> TRUE, m |-> <<12241, 8449, 16035, 1891>>, e |-> -56]],
      [x |-> [neg |-> FALSE, m |-> <<0, 0, 0, 1024>>, e |-> -52],
       y |-> Float0],
      [x |-> [neg |-> FALSE, m |-> <<0, 0, 0, 1024>>, e |-> -51],
       y |-> [neg |-> FALSE, m |-> <<0, 0, 0, 1024>>, e |-> -52]],
      [x |-> [neg |-> FALSE, m |-> <<0, 0, 0, 1536>>, e |-> -51],
       y |-> [neg |-> FALSE, m |-> <<15720, 3710, 26, 1623>>, e |-> -52]],
      [x |-> [neg |-> FALSE, m |-> <<0, 0, 0, 1024>>, e |-> -50],
       y |-> [neg |-> FALSE, m |-> <<0, 0, 0, 1024>>, e |-> -51]],
      [x |-> [neg |-> FALSE, m |-> <<0, 0, 0, 1280>>, e |-> -50],
       y |-> [neg |-> FALSE, m |-> <<9073, 9702, 13552, 1188>>, e |-> -51]],
      [x |-> [neg |-> FALSE, m |-> <<0, 0, 0, 1536>>, e |-> -50],
       y |-> [neg |-> FALSE, m |-> <<7860, 1855, 8205, 1323>>, e |-> -51]],
      [x |-> [neg |-> FALSE, m |-> <<0, 0, 0, 1792>>, e |-> -50],
       y |-> [neg |-> FALSE, m |-> <<1069, 15696, 5991, 1437>>, e |-> -51]],
      [x |-> [neg |-> FALSE, m |-> <<0, 0, 0, 1024>>, e |-> -49],
       y |-> [neg |-> FALSE, m |-> <<0, 0, 0, 1536>>, e |-> -51]],
      [x |-> [neg |-> FALSE, m |-> <<0, 0, 0, 1152>>, e |-> -49],
       y |-> [neg |-> FALSE, m |-> <<15720, 3710, 26, 1623>>, e |-> -51]],
      [x |-> [neg |-> FALSE, m |-> <<0, 0, 0, 1280>>, e |-> -49],
       y |-> [neg |-> FALSE, m |-> <<9073, 9702, 13552, 1700>>, e |-> -51]],
      [x |-> [neg |-> FALSE, m |-> <<0, 0, 0, 1408>>, e |-> -49],
       y |-> [neg |-> FALSE, m |-> <<7490, 12313, 3751, 1771>>, e |-> -51]],
      [x |-> [neg |-> FALSE, m |-> <<0, 0, 0, 1536>>, e |-> -49],
       y |-> [neg |-> FALSE, m |-> <<7860, 1855, 8205, 1835>>, e |-> -51]],
      [x |-> [neg |-> FALSE, m |-> <<0, 0, 0, 1664>>, e |-> -49],
       y |-> [neg |-> FALSE, m |-> <<8755, 3655, 10242, 1894>>, e |-> -51]] }

\* math.log2(x) for the doubles x that occur: count / total for totals up to
\* 13 and the whole numbers up to 13, as CPython 3.11 with glibc returns it.
Log2(x) == (CHOOSE entry \in Log2Table : entry.x = x).y

\* The sum of f over a finite set.
RECURSIVE Sum(_, _)
Sum(f, S) ==
    IF S = {} THEN 0
    ELSE LET x == CHOOSE y \in S : TRUE IN f[x] + Sum(f, S \ {x})

\* Mutant of DirectConnections: the rows with the selected id as NPI_2 are
\* left out.
DirectConnectionsSide1Only(original_df, selected_npi) ==
    LET Keep(e) == e.NPI_1 = selected_npi
    IN  Take(original_df, {i \in DOMAIN original_df : Keep(original_df[i])})

\* The rows in which the selected id is NPI_1 or NPI_2.
DirectConnections(original_df, selected_npi) ==
    LET Keep(e) == e.NPI_1 = selected_npi \/ e.NPI_2 = selected_npi
    IN  Take(original_df, {i \in DOMAIN original_df : Keep(original_df[i])})

\* direct_connections_df['Metrics'].dropna().tolist() if the column exists.
AllDirectMetrics(direct, metrics_column) ==
    IF metrics_column
    THEN LET Keep(e) == e.Metrics # NA
             kept == Take(direct, {i \in DOMAIN direct : Keep(direct[i])})
         IN  [i \in DOMAIN kept |-> kept[i].Metrics[1]]
    ELSE <<>>

\* pd.Series(all_direct_metrics).value_counts(): occurrences per metric type.
ValueCounts(values) ==
    [m \in Range(values) |-> Cardinality({i \in DOMAIN values : values[i] = m})]

\* The values of metric_counts in the order of value_counts(): falling.
RECURSIVE FallingCounts(_, _)
FallingCounts(metric_counts, todo) ==
    IF todo = {} THEN <<>>
    ELSE LET m == CHOOSE t \in todo : \A o \in todo : metric_counts[t] >= metric_counts[o]
         IN  <<metric_counts[m]>> \o FallingCounts(metric_counts, todo \ {m})

\* sum(p * math.log2(p) for p in probabilities if p > 0): sum() starts from
\* the int 0 and adds the terms from the left.
RECURSIVE SumTerms(_, _, _)
SumTerms(probabilities, i, start) ==
    IF i > Len(probabilities) THEN start
    ELSE LET p == probabilities[i]
         IN  SumTerms(probabilities, i + 1,
                      IF FloatGt(p, Float0) THEN FloatAdd(start, FloatMul(p, Log2(p)))
                      ELSE start)

\* probabilities = metric_counts / metric_counts.sum() and the entropy.
Entropy(metric_counts) ==
    LET counts == FallingCounts(metric_counts, DOMAIN metric_counts)
        total == Sum(metric_counts, DOMAIN metric_counts)
        probabilities == [i \in DOMAIN counts |->
                             Divide(FloatOf(counts[i]), FloatOf(total)).value]
    IN  FloatNeg(SumTerms(probabilities, 1, Float0))

\* Mutant of DiversityScore: the quotient is taken whatever max_entropy is.
DiversityScoreUnguarded(metric_counts) ==
    IF DOMAIN metric_counts = {} THEN [raised |-> FALSE, value |-> Float0]
    ELSE Divide(Entropy(metric_counts), Log2(FloatOf(Cardinality(DOMAIN metric_counts))))

\* The collaboration diversity score.
DiversityScore(metric_counts) ==
    IF DOMAIN metric_counts = {} THEN [raised |-> FALSE, value |-> Float0]
    ELSE LET entropy == Entropy(metric_counts)
             max_entropy == IF Cardinality(DOMAIN metric_counts) > 0
                            THEN Log2(FloatOf(Cardinality(DOMAIN metric_counts)))
                            ELSE FloatOf(1)
         IN  IF FloatGt(max_entropy, Float0) THEN Divide(entropy, max_entropy)
             ELSE [raised |-> FALSE, value |-> Float0]

\* The present values of a column, ascending, with repetitions.
RECURSIVE SortedValues(_, _)
SortedValues(cells, todo) ==
    IF todo = {} THEN <<>>
    ELSE LET i == CHOOSE j \in todo : \A k \in todo : cells[j][1] <= cells[k][1]
         IN  <<cells[i][1]>> \o SortedValues(cells, todo \ {i})

\* series.quantile(0.9), times 10: missing cells are skipped, the position
\* 0.9 * (n - 1) is interpolated linearly between its neighbours; missing
\* (NaN) when no cell is present.
Quantile90(cells) ==
    LET v == SortedValues(cells, {i \in DOMAIN cells : cells[i] # NA})
        pos == 9 * (Len(v) - 1)
        lo == (pos \div 10) + 1
        hi == IF pos % 10 = 0 THEN lo ELSE lo + 1
    IN  IF v = <<>> THEN NA
        ELSE <<10 * v[lo] + (pos % 10) * (v[hi] - v[lo])>>

\* value >= threshold, the threshold given times 10; False when either is
\* missing.
MeetsThreshold(cell, threshold) ==
    cell # NA /\ threshold # NA /\ 10 * cell[1] >= threshold[1]

\* papers + panels + trials, row by row.
Activity(nodes) ==
    [i \in DOMAIN nodes |->
        IF nodes[i].papers = NA \/ nodes[i].panels = NA \/ nodes[i].trials = NA THEN NA
        ELSE <<nodes[i].papers[1] + nodes[i].panels[1] + nodes[i].trials[1]>>]

\* Mutant of is_kol: one criterion met is enough (or instead of and).
is_kol_any(hcp_data, nodes) ==
    \/ MeetsThreshold(hcp_data.influence, Quantile90(Column(nodes, "influence")))
    \/ MeetsThreshold(hcp_data.connections, Quantile90(Column(nodes, "connections")))
    \/ MeetsThreshold(<<hcp_data.papers[1] + hcp_data.panels[1] + hcp_data.trials[1]>>,
                      Quantile90(Activity(nodes)))

is_kol(hcp_data, nodes) ==
    /\ MeetsThreshold(hcp_data.influence, Quantile90(Column(nodes, "influence")))
    /\ MeetsThreshold(hcp_data.connections, Quantile90(Column(nodes, "connections")))
    /\ MeetsThreshold(<<hcp_data.papers[1] + hcp_data.panels[1] + hcp_data.trials[1]>>,
                      Quantile90(Activity(nodes)))

\* a < b on floats: a comparison with a missing value (NaN) is False.
IsLt(a, b) == a # NA /\ b # NA /\ a[1] < b[1]

\* a != b on floats: True when either is missing (NaN).
IsNe(a, b) == a = NA \/ b = NA \/ a[1] # b[1]

\* A float that is the quotient of two whole numbers, kept as the pair
\* <<numerator, denominator>>; Whole(n) is the float n.0.
Whole(n) == <<n, 1>>

\* f"{x:.1f}" of the quotient num / den: the nearest tenth, a tie going to the
\* even digit.
Format1f(num, den) ==
    LET a == IF num < 0 THEN -num ELSE num
        q == (10 * a) \div den
        r == (10 * a) % den
        tenths == IF 2 * r > den \/ (2 * r = den /\ q % 2 = 1) THEN q + 1 ELSE q
    IN  (IF num < 0 /\ tenths > 0 THEN "-" ELSE "")
            \o ToString(tenths \div 10) \o "." \o ToString(tenths % 10)

\* series.min(): the smallest present value, missing (NaN) when none is.
SeriesMin(cells) ==
    LET present == {c[1] : c \in Range(cells) \ {NA}}
    IN  IF present = {} THEN NA ELSE <<SetMin(present)>>

\* Mutant of InfluencePercentile: providers with an influence lower than or
\* equal to the selected one's are counted (<= instead of <).
InfluencePercentileOrEqual(influence_score, nodes) ==
    LET influence == Column(nodes, "influence")
        lower == {i \in DOMAIN nodes : /\ influence[i] # NA /\ influence_score # NA
                                        /\ influence[i][1] <= influence_score[1]}
    IN  IF Len(nodes) > 1
        THEN IF IsNe(influence_score, SeriesMin(influence))
             THEN <<100 * Cardinality(lower), Len(nodes) - 1>> ELSE Whole(0)
        ELSE Whole(0)

\* influence_percentile: (influence < influence_score).sum() / (len - 1) * 100
\* unless the score is the column's minimum or the table has one row.
InfluencePercentile(influence_score, nodes) ==
    LET influence == Column(nodes, "influence")
        lower == {i \in DOMAIN nodes : IsLt(influence[i], influence_score)}
    IN  IF Len(nodes) > 1
        THEN IF IsNe(influence_score, SeriesMin(influence))
             THEN <<100 * Cardinality(lower), Len(nodes) - 1>> ELSE Whole(0)
        ELSE Whole(0)

\* influence_rank_text
InfluenceRankText(influence_percentile, nodes) ==
    IF Len(nodes) > 1
    THEN "placing them in the top "
            \o Format1f(100 * influence_percentile[2] - influence_percentile[1],
                        influence_percentile[2])
            \o "% of all HCPs"
    ELSE " (only HCP in the network)"

\* series.mean(): the sum of the present values over their number, missing
\* (NaN) when no value is present.
Mean(cells) ==
    LET present == {i \in DOMAIN cells : cells[i] # NA}
        values == [i \in present |-> cells[i][1]]
    IN  IF present = {} THEN NA ELSE <<Sum(values, present), Cardinality(present)>>

\* avg_connection_strength
AvgConnectionStrength(direct) ==
    IF direct # <<>> THEN Mean(Column(direct, "Strength")) ELSE Whole(0)

\* Mutant of ConnectedNpis: the selected id is not discarded.
ConnectedNpisKeepSelected(direct, selected_npi) ==
    {direct[i].NPI_1[1] : i \in {j \in DOMAIN direct : direct[j].NPI_1 # NA}}
        \cup {direct[i].NPI_2[1] : i \in {j \in DOMAIN direct : direct[j].NPI_2 # NA}}

\* connected_npis_temp: the ids on either side of the direct connections,
\* the selected id discarded.  (A missing id matches no row of the node table.)
ConnectedNpis(direct, selected_npi) ==
    ({direct[i].NPI_1[1] : i \in {j \in DOMAIN direct : direct[j].NPI_1 # NA}}
        \cup {direct[i].NPI_2[1] : i \in {j \in DOMAIN direct : direct[j].NPI_2 # NA}})
    \ {selected_npi[1]}

\* len(connected_hcps_details[column].dropna().unique())
UniqueConnected(nodes, connected_npis_temp, column) ==
    LET connected == {i \in DOMAIN nodes : IsIn(nodes[i].NPI, connected_npis_temp)}
    IN  Cardinality({nodes[i][column] : i \in connected} \ {NA})

\* What the index of value_counts() may start with, its first two labels (or
\* all of it when shorter): the counts fall, and the place of equally
\* frequent values is left to the sort (the default quicksort of sort_values,
\* which is not stable).
FallingCountHeads(metric_counts) ==
    LET types == DOMAIN metric_counts
        Top(rest) == {m \in rest : \A o \in rest : metric_counts[m] >= metric_counts[o]}
    IN  IF types = {} THEN { <<>> }
        ELSE IF Cardinality(types) = 1 THEN { <<m>> : m \in types }
        ELSE UNION { { <<a, b>> : b \in Top(types \ {a}) } : a \in Top(types) }

\* metric_counts.nlargest(2).index.tolist()
DominantMetrics(index) == SubSeq(index, 1, IF Len(index) < 2 THEN Len(index) ELSE 2)

\* separator.join(parts)
RECURSIVE Join(_, _)
Join(separator, parts) ==
    IF parts = <<>> THEN ""
    ELSE IF Len(parts) = 1 THEN parts[1]
    ELSE parts[1] \o separator \o Join(separator, Tail(parts))

\* dominant_metrics_text
DominantMetricsText(dominant_metrics) ==
    IF dominant_metrics # <<>> THEN Join(" and ", dominant_metrics)
    ELSE "no specific dominant metric identified"

\* cell > 0: False for a missing value.
IsPositive(cell) == cell # NA /\ cell[1] > 0

\* Mutant of ImpactStatement: the panels count is looked at before the papers
\* count.
ImpactStatementPanelsFirst(connection_metric_type, connected_hcp_row) ==
    IF connection_metric_type = <<"Publishers">> THEN "Co-authored on publications."
    ELSE IF connection_metric_type = <<"Affiliations">>
    THEN "Shared professional affiliations."
    ELSE IF connection_metric_type = <<"Promotional Events">>
    THEN "Collaborated on promotional events."
    ELSE IF connection_metric_type = <<"Clinical Trials">>
    THEN "Participated in clinical trials."
    ELSE IF connection_metric_type = <<"Panels">> THEN "Contributed to advisory panels."
    ELSE IF IsPositive(connected_hcp_row.panels)
    THEN "Contributed to " \o ToString(connected_hcp_row.panels[1]) \o " panels."
    ELSE IF IsPositive(connected_hcp_row.papers)
    THEN "Collaborated on " \o ToString(connected_hcp_row.papers[1]) \o " papers."
    ELSE IF IsPositive(connected_hcp_row.trials)
    THEN "Engaged in " \o ToString(connected_hcp_row.trials[1]) \o " trials."
    ELSE "Engaged in a key professional collaboration."

\* impact_statement_detail: the if / elif chain over the connection's metric
\* type and the connected provider's counts.
ImpactStatement(connection_metric_type, connected_hcp_row) ==
    IF connection_metric_type = <<"Publishers">> THEN "Co-authored on publications."
    ELSE IF connection_metric_type = <<"Affiliations">>
    THEN "Shared professional affiliations."
    ELSE IF connection_metric_type = <<"Promotional Events">>
    THEN "Collaborated on promotional events."
    ELSE IF connection_metric_type = <<"Clinical Trials">>
    THEN "Participated in clinical trials."
    ELSE IF connection_metric_type = <<"Panels">> THEN "Contributed to advisory panels."
    ELSE IF IsPositive(connected_hcp_row.papers)
    THEN "Collaborated on " \o ToString(connected_hcp_row.papers[1]) \o " papers."
    ELSE IF IsPositive(connected_hcp_row.panels)
    THEN "Contributed to " \o ToString(connected_hcp_row.panels[1]) \o " panels."
    ELSE IF IsPositive(connected_hcp_row.trials)
    THEN "Engaged in " \o ToString(connected_hcp_row.trials[1]) \o " trials."
    ELSE "Engaged in a key professional collaboration."

\* connected_npi = row['NPI_2'] if row['NPI_1'] == selected_npi else row['NPI_1']
ConnectedNpi(row, selected_npi) ==
    IF row.NPI_1 = selected_npi THEN row.NPI_2 ELSE row.NPI_1

\* The entry appended for a direct connection whose other end is in the node
\* table; row.get('Metrics', 'General Collaboration') is the row's cell when
\* the column exists.
TopConnection(row, selected_npi, nodes, metrics_column) ==
    LET connected_npi == ConnectedNpi(row, selected_npi)
        connected_hcp_row ==
            nodes[SetMin({i \in DOMAIN nodes : nodes[i].NPI = connected_npi})]
        connection_metric_type ==
            IF metrics_column THEN row.Metrics ELSE <<"General Collaboration">>
    IN  [name |-> connected_hcp_row.hcp_name, npi |-> connected_npi,
         strength |-> row.Strength, influence |-> connected_hcp_row.influence,
         metric_type |-> connection_metric_type,
         impact_statement |-> ImpactStatement(connection_metric_type, connected_hcp_row)]

\* The loop over direct_connections_df.iterrows(): the entries in row order.
TopConnections(direct, selected_npi, nodes, metrics_column) ==
    LET Known(row) == \E i \in DOMAIN nodes :
                          /\ ConnectedNpi(row, selected_npi) # NA
                          /\ nodes[i].NPI = ConnectedNpi(row, selected_npi)
        rows == Take(direct, {i \in DOMAIN direct : Known(direct[i])})
    IN  [i \in DOMAIN rows |-> TopConnection(rows[i], selected_npi, nodes, metrics_column)]

\* 0.6 * x['influence'] + 0.4 * x['strength'], times 10; missing (NaN) when
\* either is.
SortKey(x) ==
    IF x.influence = NA \/ x.strength = NA THEN NA
    ELSE <<6 * x.influence[1] + 4 * x.strength[1]>>

Reverse(s) == [i \in DOMAIN s |-> s[Len(s) + 1 - i]]

\* count_run of CPython's listsort: the length of the run at the start of
\* order, which has n elements so far and is strictly descending or not.
RECURSIVE CountRun(_, _, _, _)
CountRun(keys, order, n, descending) ==
    IF n = Len(order) THEN n
    ELSE IF IsLt(keys[order[n + 1]], keys[order[n]]) = descending
    THEN CountRun(keys, order, n + 1, descending)
    ELSE n

\* The binary search of binarysort: where the pivot goes among the sorted
\* elements at the (0-based) positions l..r-1.
RECURSIVE BinarySearch(_, _, _, _, _)
BinarySearch(keys, order, pivot, l, r) ==
    IF l >= r THEN l
    ELSE LET p == l + ((r - l) \div 2)
         IN  IF IsLt(keys[pivot], keys[order[p + 1]])
             THEN BinarySearch(keys, order, pivot, l, p)
             ELSE BinarySearch(keys, order, pivot, p + 1, r)

\* binarysort: the elements from the (0-based) position start on are inserted
\* one by one into the sorted elements before them.
RECURSIVE BinarySort(_, _, _)
BinarySort(keys, order, start) ==
    IF start >= Len(order) THEN order
    ELSE LET pivot == order[start + 1]
             l == BinarySearch(keys, order, pivot, 0, start)
         IN  BinarySort(keys,
                        SubSeq(order, 1, l) \o <<pivot>> \o SubSeq(order, l + 1, start)
                            \o SubSeq(order, start + 2, Len(order)),
                        start + 1)

\* The positions of keys in the order list.sort leaves them in (fewer than 64
\* elements: one run is counted, reversed if descending, and the rest is
\* inserted by binarysort).  The only comparison made is <.
ListSortOrder(keys) ==
    LET order == [i \in DOMAIN keys |-> i]
    IN  IF Len(keys) < 2 THEN order
        ELSE LET descending == IsLt(keys[2], keys[1])
                 n == CountRun(keys, order, 2, descending)
                 run == IF descending
                        THEN Reverse(SubSeq(order, 1, n)) \o SubSeq(order, n + 1, Len(order))
                        ELSE order
             IN  BinarySort(keys, run, n)

\* list.sort(key=..., reverse=True): the list is reversed, sorted, and
\* reversed again, which keeps equal keys in their order.
ListSortReversed(list, keys) ==
    LET reversed == Reverse(list)
        order == ListSortOrder(Reverse(keys))
    IN  Reverse([i \in DOMAIN order |-> reversed[order[i]]])

defined_metrics ==
    << "Publishers", "Affiliations", "Promotional Events", "Clinical Trials", "Panels" >>

\* connection_metrics_counts after the loop over the non-missing metric
\* values of the direct connections.
ConnectionMetricsCounts(all_direct_metrics) ==
    [metric \in Range(defined_metrics) |->
        Cardinality({i \in DOMAIN all_direct_metrics : all_direct_metrics[i] = metric})]

\* Mutant of OtherMetricsCount: the distinct values outside defined_metrics
\* are counted, not their occurrences.
OtherMetricsCountDistinct(all_direct_metrics) ==
    Cardinality(Range(all_direct_metrics) \ Range(defined_metrics))

\* other_metrics_count after the loop.
OtherMetricsCount(all_direct_metrics) ==
    Cardinality({i \in DOMAIN all_direct_metrics :
                    all_direct_metrics[i] \notin Range(defined_metrics)})

\* f"- **{metric}**: **{count}** connections (**{percentage:.1f}%** of
\* direct metrics)", with the percentage already formatted.
BreakdownLine(metric, count, percentage) ==
    "- **" \o metric \o "**: **" \o ToString(count) \o "** connections (**"
        \o percentage \o "%** of direct metrics)"

\* metrics_breakdown: percentage = (count / total_metric_instances) * 100.
MetricsBreakdown(connection_metrics_counts, other_metrics_count) ==
    LET total_metric_instances ==
            Sum(connection_metrics_counts, DOMAIN connection_metrics_counts)
                + other_metrics_count
        listed == {i \in DOMAIN defined_metrics :
                      connection_metrics_counts[defined_metrics[i]] > 0}
        lines == [i \in DOMAIN defined_metrics |->
                     BreakdownLine(defined_metrics[i],
                                   connection_metrics_counts[defined_metrics[i]],
                                   Format1f(connection_metrics_counts[defined_metrics[i]] * 100,
                                            total_metric_instances))]
    IN  IF total_metric_instances > 0
        THEN Take(lines, listed)
                 \o (IF other_metrics_count > 0
                     THEN << BreakdownLine("Other/Undefined", other_metrics_count,
                                           Format1f(other_metrics_count * 100,
                                                    total_metric_instances)) >>
                     ELSE <<>>)
        ELSE << "- **No specific connection metrics or direct connections found for this HCP to analyze dynamics.**" >>

\* The two wordings of the interpretation that name a focus.
FocusOn(dominant_category_val) ==
    "This HCP's network shows a strong focus on **" \o dominant_category_val
        \o "** connections."

FocusOnWith(dominant_category_val, secondary_category_val) ==
    "This highlights a strong focus on **" \o dominant_category_val
        \o "** connections, with notable engagement in **" \o secondary_category_val
        \o "**."

\* metrics_interpretation: sorted(..., reverse=True) sorts as list.sort does.
MetricsInterpretation(connection_metrics_counts, other_metrics_count, metric_counts) ==
    LET total_metric_instances ==
            Sum(connection_metrics_counts, DOMAIN connection_metrics_counts)
                + other_metrics_count
        sorted_metric_items ==
            ListSortReversed(defined_metrics,
                             [i \in DOMAIN defined_metrics |->
                                 <<connection_metrics_counts[defined_metrics[i]]>>])
        dominant_category_val ==
            IF connection_metrics_counts[sorted_metric_items[1]] > 0
            THEN sorted_metric_items[1] ELSE "diverse engagement"
    IN  IF total_metric_instances > 0
        THEN IF DOMAIN metric_counts = {}
             THEN "This HCP's connection dynamics are not clearly categorized by the standard metrics."
             ELSE IF Len(sorted_metric_items) > 1
                        /\ connection_metrics_counts[sorted_metric_items[2]] > 0
             THEN FocusOnWith(dominant_category_val, sorted_metric_items[2])
             ELSE FocusOn(dominant_category_val)
        ELSE ""

\* The summaries the function may return for a provider whose row is in the
\* node table: one for every order value_counts() may give the metric types.
SummaryOf(hcp_data, selected_npi, nodes, original_df, metrics_column) ==
    LET direct_connections_df == DirectConnections(original_df, selected_npi)
        all_direct_metrics == AllDirectMetrics(direct_connections_df, metrics_column)
        metric_counts == ValueCounts(all_direct_metrics)
        score == DiversityScore(metric_counts)
        influence_percentile == InfluencePercentile(hcp_data.influence, nodes)
        connected_npis_temp == ConnectedNpis(direct_connections_df, selected_npi)
        top_connections_list ==
            TopConnections(direct_connections_df, selected_npi, nodes, metrics_column)
    IN  IF score.raised THEN {Raise("ZeroDivisionError")}
        ELSE {[kind |-> "summary", hcp_data |-> hcp_data,
               total_connections |-> hcp_data.connections,
               influence_score |-> hcp_data.influence,
               influence_rank_text |-> InfluenceRankText(influence_percentile, nodes),
               influence_percentile |-> influence_percentile,
               avg_connection_strength |-> AvgConnectionStrength(direct_connections_df),
               unique_states_connected |->
                   UniqueConnected(nodes, connected_npis_temp, "state"),
               unique_cities_connected |->
                   UniqueConnected(nodes, connected_npis_temp, "city"),
               dominant_metrics_text |-> DominantMetricsText(DominantMetrics(index)),
               metrics_breakdown |->
                   MetricsBreakdown(ConnectionMetricsCounts(all_direct_metrics),
                                    OtherMetricsCount(all_direct_metrics)),
               metrics_interpretation |->
                   MetricsInterpretation(ConnectionMetricsCounts(all_direct_metrics),
                                         OtherMetricsCount(all_direct_metrics),
                                         metric_counts),
               top_connections_list |->
                   ListSortReversed(top_connections_list,
                                    [i \in DOMAIN top_connections_list |->
                                        SortKey(top_connections_list[i])]),
               papers |-> hcp_data.papers[1], panels |-> hcp_data.panels[1],
               trials |-> hcp_data.trials[1],
               collaboration_diversity_score |-> score.value,
               kol_status |-> IF is_kol(hcp_data, nodes) THEN "Key Opinion Leader"
                              ELSE "Standard HCP"] :
                 index \in FallingCountHeads(metric_counts)}

\* Mutant of generate_hcp_summary_data: hcp_data.iloc[0] is taken without the
\* check that the id was found.
generate_hcp_summary_unchecked(selected_npi, nodes, original_df, metrics_column) ==
    LET found == {i \in DOMAIN nodes : nodes[i].NPI = selected_npi}
    IN  IF selected_npi = NA \/ nodes = <<>> THEN {None}
        ELSE IF found = {} THEN {Raise("IndexError")}
        ELSE SummaryOf(nodes[SetMin(found)], selected_npi, nodes, original_df,
                       metrics_column)

generate_hcp_summary_data(selected_npi, nodes, original_df, metrics_column) ==
    LET found == {i \in DOMAIN nodes : nodes[i].NPI = selected_npi}
    IN  IF selected_npi = NA \/ nodes = <<>> THEN {None}
        ELSE IF found = {} THEN {None}
        ELSE SummaryOf(nodes[SetMin(found)], selected_npi, nodes, original_df,
                       metrics_column)

-----------------------------------------------------------------------------
(* Input rows.                                                             *)

MkRow(a, b, o1, o2, act, s, m) ==
    [NPI_1 |-> a, HCP_1 |-> o1[1], Connections_1 |-> o1[2], Influence_1 |-> o1[3],
     City1 |-> o1[4], State1 |-> o1[5],
     NPI_2 |-> b, HCP_2 |-> o2[1], Connections_2 |-> o2[2], Influence_2 |-> o2[3],
     City2 |-> o2[4], State2 |-> o2[5],
     Papers |-> act[1], Panels |-> act[2], Trials |-> act[3],
     Strength |-> s, Metrics |-> m]

\* Rows for the aggregation claims: the two ids (either may be missing), what
\* each side reports (name, connections, influence, city, state), and the
\* row's activity counts (Papers, Panels, Trials), which go with what side 2
\* reports.  What side 1 reports next to a missing NPI_1 is grouped under no
\* id, so one report stands for all.
AggIds == {<<1>>, <<2>>, NA}

Ann == << <<"Ann">>, <<1>>, <<1>>, <<"c1">>, <<"s1">> >>

Blank == << NA, NA, NA, NA, NA >>

Bob == << <<"Bob">>, <<2>>, <<2>>, <<"c2">>, NA >>

AggSideObs == {Ann, Blank, Bob}

AggActivity(o2) ==
    IF o2 = Blank THEN << NA, NA, NA >>
    ELSE IF o2 = Ann THEN << <<1>>, <<-1>>, <<0>> >>
    ELSE << <<2>>, NA, <<1>> >>

AggRows ==
    { MkRow(a, b, o1, o2, AggActivity(o2), <<1>>, <<"Publishers">>) :
        a \in AggIds \ {NA}, b \in AggIds, o1 \in AggSideObs, o2 \in AggSideObs }
    \cup
    { MkRow(NA, b, Ann, o2, AggActivity(o2), <<1>>, <<"Publishers">>) :
        b \in AggIds, o2 \in AggSideObs }

\* Rows for the node-filter claims: provider 1 or 3 on side 1, reporting one
\* of five profiles, connected to provider 2 on side 2; the row's activity
\* counts go with the side-1 profile.
Hub == << <<"Hub">>, <<2>>, <<2>>, <<"c1">>, <<"s1">> >>

Cal == << <<"Cal">>, <<2>>, <<1>>, <<"c2">>, <<"s1">> >>

Dee == << <<"Dee">>, <<1>>, <<2>>, <<"c1">>, <<"s2">> >>

Eve == << <<"Eve">>, <<1>>, <<-1>>, <<"c2">>, NA >>

FilterSideObs == {Hub, Cal, Dee, Eve, Blank}

FilterActivity(o1) ==
    IF o1 = Hub THEN << <<1>>, <<1>>, <<1>> >>
    ELSE IF o1 = Cal THEN << <<1>>, <<0>>, NA >>
    ELSE IF o1 = Dee THEN << <<0>>, <<1>>, <<1>> >>
    ELSE IF o1 = Eve THEN << <<-1>>, <<0>>, <<0>> >>
    ELSE << NA, NA, NA >>

FilterRows ==
    { MkRow(a, <<2>>, o1, Hub, FilterActivity(o1), <<1>>, <<"Panels">>) :
        a \in {<<1>>, <<3>>}, o1 \in FilterSideObs }

\* Rows for the edge-selector claim: five id pairs (a self-loop and a row
\* without NPI_1 among them), each with a missing strength or one of 1..3.
EdgeRows ==
    { MkRow(ids[1], ids[2], Cal, Dee, << NA, NA, NA >>, s, <<"Panels">>) :
        ids \in { << <<1>>, <<2>> >>, << <<2>>, <<3>> >>, << <<3>>, <<1>> >>,
                  << <<1>>, <<1>> >>, << NA, <<2>> >> },
        s \in {NA, <<1>>, <<2>>, <<3>>} }

\* The id lists and strength ranges tried by the edge selector.
NodeIdLists == SUBSET {1, 2, 3}

StrengthRanges == { <<0, 3>>, <<1, 2>>, <<2, 2>>, <<2, 3>> }

\* Rows for the summary claims: provider 1 with 2 or 3, each side reporting
\* connections and influence of 1 or 2, the metric type of the connection
\* missing or one of two, and the row's activity counts going with it.
Hal == << <<"Hal">>, <<2>>, <<2>>, <<"c1">>, <<"s1">> >>

Lou == << <<"Lou">>, <<1>>, <<2>>, <<"c2">>, <<"s2">> >>

Max == << <<"Max">>, <<2>>, <<1>>, <<"c1">>, <<"s2">> >>

SummaryActivity(m) ==
    IF m = NA THEN << <<0>>, NA, <<0>> >>
    ELSE IF m = <<"Publishers">> THEN << <<1>>, <<0>>, <<0>> >>
    ELSE << <<0>>, <<1>>, NA >>

SummaryRows ==
    { MkRow(ids[1], ids[2], o1, o2, SummaryActivity(m), <<1>>, m) :
        ids \in { << <<1>>, <<2>> >>, << <<3>>, <<1>> >> },
        o1 \in {Hal, Lou}, o2 \in {Hal, Max, Blank},
        m \in {NA, <<"Publishers">>, <<"Panels">>} }

\* Rows for the claims about one provider's connections: provider 1 with 2,
\* with 3, or with itself.  Every provider reports one profile, but provider 3
\* reports nothing about itself in the rows of the last two kinds.  A row is
\* of one of four kinds, which fixes its strength, its metric type and its
\* activity counts.
DetailIds == { << <<1>>, <<2>> >>, << <<3>>, <<1>> >>, << <<1>>, <<1>> >> }

DetailProfile(id, kind) ==
    IF id = <<1>> THEN Hal
    ELSE IF id = <<2>> THEN Max
    ELSE IF kind <= 2 THEN Lou ELSE Blank

DetailStrength(kind) == IF kind \in {2, 3} THEN <<2>> ELSE <<1>>

DetailMetrics(kind) ==
    IF kind = 1 THEN <<"Publishers">>
    ELSE IF kind = 2 THEN <<"Panels">>
    ELSE IF kind = 3 THEN NA
    ELSE <<"Workshops">>

DetailActivity(kind) ==
    IF kind = 1 THEN << <<2>>, <<0>>, <<0>> >>
    ELSE IF kind = 2 THEN << <<0>>, <<1>>, NA >>
    ELSE IF kind = 3 THEN << <<0>>, <<0>>, <<1>> >>
    ELSE << <<0>>, NA, <<0>> >>

DetailRows ==
    { MkRow(ids[1], ids[2], DetailProfile(ids[1], kind), DetailProfile(ids[2], kind),
            DetailActivity(kind), DetailStrength(kind), DetailMetrics(kind)) :
        ids \in DetailIds, kind \in 1..4 }

\* Rows for the claim about the pages of a session: providers 1, 2 and 3.
SessionRows ==
    { MkRow(<<1>>, <<2>>, Hal, Max, DetailActivity(1), <<1>>, <<"Publishers">>),
      MkRow(<<3>>, <<1>>, Lou, Hal, DetailActivity(2), <<2>>, <<"Panels">>),
      MkRow(<<3>>, <<2>>, Lou, Max, DetailActivity(4), <<2>>, NA) }

\* Rows for the claim about the metric breakdown: connections of provider 1
\* to provider 2 with a metric type of the five categories, another one, or
\* none.
BreakdownRows ==
    { MkRow(<<1>>, <<2>>, Hal, Max, DetailActivity(1), <<1>>, metric) :
        metric \in { <<"Publishers">>, <<"Clinical Trials">>, <<"Panels">>,
                     <<"Workshops">>, <<"Seminars">>, NA } }

\* Rows for the claim about the diversity score: connections of provider 1
\* to provider 2 with a metric type each.  The score depends on the counts of
\* the types alone, so the rows come grouped by type with falling counts.
DiversityMetrics ==
    << "Publishers", "Affiliations", "Promotional Events", "Clinical Trials", "Panels",
       "Workshops", "Grants", "Guidelines", "Societies", "Registries", "Editorials",
       "Mentorship", "Referrals" >>

DiversityRow(j) ==
    MkRow(<<1>>, <<2>>, Hal, Max, DetailActivity(1), <<1>>, <<DiversityMetrics[j]>>)

\* The metric types that may follow in a table of such rows: the last type
\* again, while its count stays within the count of the type before it, or
\* the next type.
DiversityNext(table) ==
    LET Count(j) == Cardinality({i \in DOMAIN table : table[i] = DiversityRow(j)})
        last == Cardinality({table[i].Metrics : i \in DOMAIN table})
    IN  {j \in 1..Len(DiversityMetrics) :
            \/ j = last + 1
            \/ j = last /\ (last = 1 \/ Count(last) < Count(last - 1))}

\* Rows for the claim about the columns of the input: three rows, in tables
\* that have every column or lack some of the optional columns (Papers,
\* Panels, Trials, Metrics) or a required one (City1, NPI_2).
SchemaRows ==
    { MkRow(<<1>>, <<2>>, Hal, Max, DetailActivity(1), <<1>>, <<"Publishers">>),
      MkRow(<<3>>, <<1>>, Lou, Hal, DetailActivity(2), <<2>>, <<"Panels">>),
      MkRow(<<1>>, <<2>>, Hal, Max, DetailActivity(4), <<2>>, NA) }

SchemaDrops ==
    { {}, {"Metrics"}, {"Papers"}, {"Panels", "Trials"},
      {"Papers", "Panels", "Trials", "Metrics"}, {"City1"}, {"NPI_2", "Metrics"} }

\* The row as a file without the dropped columns holds it.
Without(row, dropped) == [column \in DOMAIN row \ dropped |-> row[column]]

\* The ids a summary is asked for: none, or one of three providers.
SummaryIds == {NA, <<1>>, <<2>>, <<3>>}

\* The filter criteria tried: the sidebar's selections and minimum sliders.
Criteria(ss, sc, mc, mi, mpa, mpn, mt) ==
    [selected_states |-> ss, selected_cities |-> sc, min_connections |-> mc,
     min_influence |-> mi, min_papers |-> mpa, min_panels |-> mpn, min_trials |-> mt]

FilterCriteria ==
    { Criteria({}, {}, 0, 0, 0, 0, 0),
      Criteria({"s1"}, {}, 0, 0, 0, 0, 0),
      Criteria({"s1", "s2"}, {}, 0, 0, 0, 0, 0),
      Criteria({}, {"c2"}, 0, 0, 0, 0, 0),
      Criteria({"s1"}, {"c1"}, 0, 0, 0, 0, 0),
      Criteria({}, {}, 2, 0, 0, 0, 0),
      Criteria({}, {}, 3, 0, 0, 0, 0),
      Criteria({}, {}, 0, 2, 0, 0, 0),
      Criteria({}, {}, 0, 0, 1, 0, 0),
      Criteria({}, {}, 0, 0, 0, 1, 0),
      Criteria({}, {}, 0, 0, 0, 0, 1),
      Criteria({"s1"}, {}, 0, 1, 0, 0, 1) }

\* st.number_input("Number of Top HCPs", min_value=1, max_value=len(all_hcps_details))
MinTopN == 1

\* Rows and arguments for the claim about repeated calls: a row between
\* provider 1 and provider 2 or 3, of one of two kinds; the filter criteria
\* that constrain nothing, one list of ids with one strength range, and two
\* ids to summarise.
CacheRows ==
    { MkRow(<<1>>, <<2>>, Hal, Max, DetailActivity(1), <<1>>, <<"Publishers">>),
      MkRow(<<3>>, <<1>>, Lou, Hal, DetailActivity(2), <<2>>, <<"Panels">>),
      MkRow(<<1>>, <<2>>, Hal, Max, DetailActivity(2), <<2>>, <<"Panels">>) }

CacheCriteria == { Criteria({}, {}, 0, 0, 0, 0, 0) }

CacheIds == { <<1>>, <<2>> }

-----------------------------------------------------------------------------
(* 5. @st.cache_data                                                       *)

\* The entries of the four functions' caches: no entry when the process
\* starts.  An entry holds the arguments that are hashed and the value stored
\* for them.
NoEntries ==
    [get_all_hcps_details |-> {}, get_filtered_nodes |-> {},
     get_filtered_edges_for_display |-> {}, generate_hcp_summary_data |-> {}]

\* The values stored under a key in the cache of a function.
Stored(function, key) == {e.value : e \in {x \in cache[function] : x.key = key}}

\* The results a cached call may return: the value stored under the key, and
\* on a miss the results of the function's body.
Returned(function, key, computed) ==
    IF Stored(function, key) # {} THEN Stored(function, key) ELSE computed

\* The cache after the call returned value: on a miss the value is stored.
Remember(function, key, value) ==
    IF Stored(function, key) # {} THEN cache
    ELSE [cache EXCEPT ![function] = @ \cup {[key |-> key, value |-> value]}]

\* The keys of the four functions: st.cache_data hashes every argument but
\* those whose parameter name starts with an underscore (_all_hcps_details,
\* _original_df, _all_hcps_details_df).
KeyOfAggregate(table) == [df |-> table]

KeyOfFilterNodes(top_n, c, sort_by) == [top_n |-> top_n, criteria |-> c, sort_by |-> sort_by]

KeyOfFilterEdges(filtered_node_npis, min_strength, max_strength) ==
    [filtered_node_npis |-> filtered_node_npis, min_strength |-> min_strength,
     max_strength |-> max_strength]

KeyOfSummary(selected_npi) == [selected_npi |-> selected_npi, default_top_n |-> 5]

-----------------------------------------------------------------------------
(* main(): every rerun reads the CSV and aggregates it.                    *)

\* The first option of the selectbox.
Placeholder == "Select an HCP for Summary"

\* st.session_state and the page in the browser before the first run of
\* main(): page, selected_hcp_npi and summary_data hold what the start of
\* main() sets for a missing key (None is NA for the id), the selectbox is at
\* its first option, and no widget is shown.  A button is "absent",
\* "disabled" or "enabled" as the last run rendered it.
NoSession ==
    [started |-> FALSE, page |-> "main", selected_hcp_npi |-> NA, summary_data |-> None,
     hcp_summary_selector |-> Placeholder, selector |-> FALSE,
     sidebar_go |-> "absent", main_go |-> "absent", back |-> FALSE]

\* disabled=not st.session_state['selected_hcp_npi']
GoButton(selected_hcp_npi) ==
    IF selected_hcp_npi = NA \/ selected_hcp_npi[1] = 0 THEN "disabled" ELSE "enabled"

\* hcp_names without the placeholder.
HcpNames(nodes) ==
    {nodes[i].hcp_name[1] : i \in {j \in DOMAIN nodes : nodes[j].hcp_name # NA}}

\* all_hcps_details[all_hcps_details['hcp_name'] == name]['NPI'].iloc[0] for
\* the option of the selectbox; None for the placeholder, and for a name that
\* is not found (IndexError).
SelectedNpi(nodes, name) ==
    LET found == {i \in DOMAIN nodes : nodes[i].hcp_name = <<name>>}
    IN  IF name # Placeholder /\ found # {} THEN nodes[SetMin(found)].NPI ELSE NA

\* The sidebar of a run with the button the browser reports as clicked.  A
\* clicked st.button returns True whatever disabled= is passed in this run;
\* st.rerun() ends the run and starts the script again without a click.
Sidebar(s, clicked) ==
    IF s.page = "main" /\ clicked = "sidebar_go" THEN [s EXCEPT !.page = "summary"]
    ELSE IF s.page # "main" /\ clicked = "back" THEN [s EXCEPT !.page = "main"]
    ELSE s

\* The run ends at "No HCP data available after processing": no widget.
NoPage(s) ==
    [s EXCEPT !.selector = FALSE, !.sidebar_go = "absent", !.main_go = "absent",
              !.back = FALSE]

\* The rest of a run once page is 'summary': the sidebar shows "Back to Main
\* Page", the selectbox is not rendered and its widget state is dropped.
SummaryPage(s) ==
    [s EXCEPT !.hcp_summary_selector = Placeholder, !.selector = FALSE,
              !.sidebar_go = "absent", !.main_go = "absent", !.back = TRUE]

\* The rest of a run while page is 'main': the sidebar button is rendered
\* from the selection the run started with, then the selectbox block sets
\* selected_hcp_npi and summary_data, and the button of the main page is
\* rendered from the new selection.
MainPage(s, selected_hcp_npi, summary_data) ==
    [s EXCEPT !.selector = TRUE, !.back = FALSE,
              !.sidebar_go = GoButton(s.selected_hcp_npi),
              !.selected_hcp_npi = selected_hcp_npi, !.summary_data = summary_data,
              !.main_go = GoButton(selected_hcp_npi)]

Init ==
    /\ df = <<>>
    /\ hasMetrics \in BOOLEAN
    /\ all_hcps_details = get_all_hcps_details(<<>>)
    /\ call = [op |-> "init"]
    /\ result = None
    /\ cache = NoEntries
    /\ session = NoSession

\* A rerun after one more record was appended to the CSV.
Reread(row) ==
    /\ hasMetrics \/ row.Metrics = NA
    /\ df' = Append(df, row)
    /\ all_hcps_details' = get_all_hcps_details(df')
    /\ call' = [op |-> "get_all_hcps_details"]
    /\ result' = all_hcps_details'
    /\ UNCHANGED <<hasMetrics, cache, session>>

Load(row) == Len(df) < MaxRows /\ Reread(row)

LoadAgg == \E row \in AggRows : Load(row)

Next == LoadAgg

Spec == Init /\ [][Next]_vars

\* The table of this rerun is read and aggregated and no engine call was made
\* on it yet.
Loaded == call.op \in {"init", "get_all_hcps_details"}

\* The main page calls get_filtered_nodes with the sidebar's criteria.
FilterNodes ==
    \E c \in FilterCriteria, sort_by \in {"connections", "influence"},
       top_n \in MinTopN..(IF all_hcps_details = <<>> THEN 1 ELSE Len(all_hcps_details)) :
        /\ Loaded
        /\ call' = [op |-> "get_filtered_nodes", top_n |-> top_n, criteria |-> c,
                    sort_by |-> sort_by]
        /\ result' = get_filtered_nodes(all_hcps_details, top_n, c.selected_states,
                         c.selected_cities, c.min_connections, c.min_influence,
                         c.min_papers, c.min_panels, c.min_trials, sort_by)
        /\ UNCHANGED <<df, hasMetrics, all_hcps_details, cache, session>>

LoadFilter == \E row \in FilterRows : Load(row)

NextFilter == LoadFilter \/ FilterNodes

SpecFilter == Init /\ [][NextFilter]_vars

\* The main page calls get_filtered_edges_for_display with the ids of the
\* displayed nodes and the strength range of the slider.
FilterEdges ==
    \E npis \in NodeIdLists, range \in StrengthRanges :
        /\ Loaded
        /\ call' = [op |-> "get_filtered_edges_for_display", filtered_node_npis |-> npis,
                    min_strength |-> range[1], max_strength |-> range[2]]
        /\ result' = get_filtered_edges_for_display(df, npis, range[1], range[2])
        /\ UNCHANGED <<df, hasMetrics, all_hcps_details, cache, session>>

LoadEdges == \E row \in EdgeRows : Load(row)

NextEdges == LoadEdges \/ FilterEdges

SpecEdges == Init /\ [][NextEdges]_vars

\* generate_hcp_summary_data is called for an id with the node table of this
\* rerun, and with its edge table or an edge table without rows; the result
\* is one of those the call may return.
Summarize ==
    \E selected_npi \in SummaryIds, original_df \in {df, <<>>} :
        /\ Loaded
        /\ call' = [op |-> "generate_hcp_summary_data", selected_npi |-> selected_npi,
                    original_df |-> original_df]
        /\ result' \in generate_hcp_summary_data(selected_npi, all_hcps_details,
                                                 original_df, hasMetrics)
        /\ UNCHANGED <<df, hasMetrics, all_hcps_details, cache, session>>

LoadSummary == \E row \in SummaryRows : Load(row)

NextSummary == LoadSummary \/ Summarize

SpecSummary == Init /\ [][NextSummary]_vars

\* The four functions called on the tables of the node-filter rows, the empty
\* tables of the start among them.
NextEngine == LoadFilter \/ FilterNodes \/ FilterEdges \/ Summarize

SpecEngine == Init /\ [][NextEngine]_vars

\* The CSV as the session finds it: it is written before the first run.
LoadSession ==
       \E row \in SessionRows : ~session.started /\ Load(row)

\* A run of main() after the event of the browser, from the session state s
\* (after the callbacks of the clicked widget); the table is read again and
\* is the same.
Rerun(event, s, clicked) ==
    \E selected_hcp_npi \in {SelectedNpi(all_hcps_details, s.hcp_summary_selector)} :
        \E summary_data \in IF selected_hcp_npi = NA THEN {None}
                             ELSE generate_hcp_summary_data(selected_hcp_npi,
                                      all_hcps_details, df, hasMetrics) :
            /\ call' = [op |-> "main", event |-> event]
            /\ session' = IF all_hcps_details = <<>> THEN NoPage(s)
                          ELSE IF Sidebar(s, clicked).page = "main"
                          THEN MainPage(Sidebar(s, clicked), selected_hcp_npi, summary_data)
                          ELSE SummaryPage(Sidebar(s, clicked))
            /\ UNCHANGED <<df, hasMetrics, all_hcps_details, result, cache>>

\* The browser opens the page.
Open ==
    /\ ~session.started
    /\ Rerun("open", [session EXCEPT !.started = TRUE], "none")

\* Another option of the selectbox is chosen: a provider or the placeholder.
ChooseHcp ==
    \E name \in HcpNames(all_hcps_details) \cup {Placeholder} :
        /\ session.selector
        /\ name # session.hcp_summary_selector
        /\ Rerun("select", [session EXCEPT !.hcp_summary_selector = name], "none")

\* "Go to HCP Summary" of the sidebar is clicked.
ClickSidebarGo ==
    /\ session.sidebar_go = "enabled"
    /\ Rerun("sidebar_go", session, "sidebar_go")

\* "Go to HCP Summary" of the main page is clicked: its on_click callback
\* sets page before the script runs.
ClickMainGo ==
    /\ session.main_go = "enabled"
    /\ Rerun("main_go", [session EXCEPT !.page = "summary"], "none")

\* "Back to Main Page" is clicked.
ClickBack ==
    /\ session.back
    /\ Rerun("back", session, "back")

NextSession ==
    LoadSession \/ Open \/ ChooseHcp \/ ClickSidebarGo \/ ClickMainGo \/ ClickBack

SpecSession == Init /\ [][NextSession]_vars

LoadBreakdown == \E row \in BreakdownRows : Len(df) < MaxDirect /\ Reread(row)

NextBreakdown == LoadBreakdown \/ Summarize

SpecBreakdown == Init /\ [][NextBreakdown]_vars

LoadDiversity ==
    \E j \in DiversityNext(df) : Len(df) < MaxMetrics /\ Reread(DiversityRow(j))

NextDiversity == LoadDiversity \/ Summarize

SpecDiversity == Init /\ [][NextDiversity]_vars

\* st.error(f"Missing required column in CSV: {e}.") of the except KeyError
\* clause around pd.read_csv in main().
MissingColumnError(columns) ==
    [kind |-> "st.error", message |-> "Missing required column in CSV", columns |-> columns]

\* A rerun of main() on a CSV whose header may lack columns.  The try block
\* holds pd.read_csv alone, which returns the table with the columns the file
\* has and raises no KeyError, so its except clause is not entered; what
\* get_all_hcps_details raises after the try block leaves main() and ends
\* the run before st.session_state['all_hcps_details'] is assigned.
RereadSchema ==
    \E row \in SchemaRows, dropped \in SchemaDrops :
        LET table == Append(df, Without(row, dropped))
            outcome == get_all_hcps_details(table)
        IN  /\ Len(df) < MaxRows
            /\ df # <<>> => DOMAIN Without(row, dropped) = Columns(df)
            /\ hasMetrics <=> "Metrics" \in Columns(table)
            /\ df' = table
            /\ result' = outcome
            /\ IF hcp_cols \ Columns(table) # {}
               THEN /\ call' = [op |-> "main"]
                    /\ UNCHANGED all_hcps_details
               ELSE /\ call' = [op |-> "get_all_hcps_details"]
                    /\ all_hcps_details' = outcome
            /\ UNCHANGED <<hasMetrics, cache, session>>

NextSchema == RereadSchema \/ Summarize

SpecSchema == Init /\ [][NextSchema]_vars

\* A rerun of main() in a process that lives on: the CSV is read again, with
\* one more record or as it was, and aggregated through the cache.
RereadCached ==
    \E table \in {df} \cup {Append(df, row) : row \in CacheRows} :
        LET key == KeyOfAggregate(table)
        IN  /\ Len(table) <= MaxRows
            /\ df' = table
            /\ all_hcps_details'
                  \in Returned("get_all_hcps_details", key, {get_all_hcps_details(table)})
            /\ call' = [op |-> "get_all_hcps_details"]
            /\ result' = all_hcps_details'
            /\ cache' = Remember("get_all_hcps_details", key, all_hcps_details')
            /\ UNCHANGED <<hasMetrics, session>>

\* main() returns before the calls below when the node table is empty.
CachedFilterNodes ==
    \E c \in CacheCriteria, top_n \in MinTopN..Len(all_hcps_details) :
        LET key == KeyOfFilterNodes(top_n, c, "influence")
        IN  /\ Loaded
            /\ all_hcps_details # <<>>
            /\ call' = [op |-> "get_filtered_nodes", top_n |-> top_n, criteria |-> c,
                        sort_by |-> "influence"]
            /\ result' \in Returned("get_filtered_nodes", key,
                              {get_filtered_nodes(all_hcps_details, top_n,
                                   c.selected_states, c.selected_cities,
                                   c.min_connections, c.min_influence, c.min_papers,
                                   c.min_panels, c.min_trials, "influence")})
            /\ cache' = Remember("get_filtered_nodes", key, result')
            /\ UNCHANGED <<df, hasMetrics, all_hcps_details, session>>

CachedFilterEdges ==
    LET key == KeyOfFilterEdges({1, 2}, 0, 3)
    IN  /\ Loaded
        /\ all_hcps_details # <<>>
        /\ call' = [op |-> "get_filtered_edges_for_display", filtered_node_npis |-> {1, 2},
                    min_strength |-> 0, max_strength |-> 3]
        /\ result' \in Returned("get_filtered_edges_for_display", key,
                          {get_filtered_edges_for_display(df, {1, 2}, 0, 3)})
        /\ cache' = Remember("get_filtered_edges_for_display", key, result')
        /\ UNCHANGED <<df, hasMetrics, all_hcps_details, session>>

\* The id summarised is that of a provider picked from the node table.
CachedSummarize ==
    \E selected_npi \in CacheIds :
        LET key == KeyOfSummary(selected_npi)
        IN  /\ Loaded
            /\ \E i \in DOMAIN all_hcps_details : all_hcps_details[i].NPI = selected_npi
            /\ call' = [op |-> "generate_hcp_summary_data", selected_npi |-> selected_npi,
                        original_df |-> df]
            /\ result' \in Returned("generate_hcp_summary_data", key,
                              generate_hcp_summary_data(selected_npi, all_hcps_details,
                                                        df, hasMetrics))
            /\ cache' = Remember("generate_hcp_summary_data", key, result')
            /\ UNCHANGED <<df, hasMetrics, all_hcps_details, session>>

NextCache == RereadCached \/ CachedFilterNodes \/ CachedFilterEdges \/ CachedSummarize

SpecCache == Init /\ [][NextCache]_vars

LoadDetail == \E row \in DetailRows : Len(df) < MaxDirect /\ Reread(row)

NextDetail == LoadDetail \/ Summarize

SpecDetail == Init /\ [][NextDetail]_vars

-----------------------------------------------------------------------------
(* Claims about get_all_hcps_details.                                      *)

\* The non-missing provider ids on either side of the rows of the edge table.
EdgeIds(t) ==
    ({t[i].NPI_1 : i \in DOMAIN t} \cup {t[i].NPI_2 : i \in DOMAIN t}) \ {NA}

\* C1: the node table has exactly one row per distinct provider id that
\* appears in NPI_1 or NPI_2 of a row of the edge table: no id twice, none
\* missing, none that is not in the edge table.
C1_OneRowPerId ==
    /\ {all_hcps_details[i].NPI : i \in DOMAIN all_hcps_details} = EdgeIds(df)
    /\ \A i, j \in DOMAIN all_hcps_details :
          all_hcps_details[i].NPI = all_hcps_details[j].NPI => i = j

\* C1 witness: two rows, an id that is on side 1 of one row and on side 2 of
\* the other, and a second id that occurs on side 2 only.
C1_Witness ==
    /\ Len(df) = 2
    /\ df[1].NPI_1 = <<1>> /\ df[2].NPI_2 = <<1>>
    /\ df[1].NPI_2 = <<2>> /\ df[2].NPI_1 = NA
    /\ Len(all_hcps_details) = 2

\* What the rows of t report for id in the field of its side (f1 on side 1,
\* f2 on side 2), missing reports left out.
Reported(t, id, f1, f2) ==
    ({t[i][f1] : i \in {j \in DOMAIN t : t[j].NPI_1 = id}}
       \cup {t[i][f2] : i \in {j \in DOMAIN t : t[j].NPI_2 = id}}) \ {NA}

\* What the rows of t that mention id report for a shared activity field,
\* a missing report counted as zero.
ReportedActivity(t, id, f) ==
    {IF t[i][f] = NA THEN 0 ELSE t[i][f][1] :
        i \in {j \in DOMAIN t : t[j].NPI_1 = id \/ t[j].NPI_2 = id}}

IsMaxOf(x, S) == x \in S /\ \A y \in S : y <= x

C2_MaxOfReports ==
    \A i \in DOMAIN all_hcps_details :
        LET n == all_hcps_details[i]
            conns == Reported(df, n.NPI, "Connections_1", "Connections_2")
        IN  /\ IF conns = {} THEN n.connections = NA
               ELSE n.connections # NA /\ IsMaxOf(n.connections[1], {c[1] : c \in conns})
            /\ n.papers # NA /\ IsMaxOf(n.papers[1], ReportedActivity(df, n.NPI, "Papers"))
            /\ n.panels # NA /\ IsMaxOf(n.panels[1], ReportedActivity(df, n.NPI, "Panels"))
            /\ n.trials # NA /\ IsMaxOf(n.trials[1], ReportedActivity(df, n.NPI, "Trials"))

\* x is not lower than y (a missing y is lower than everything).
NotLower(x, y) == y = NA \/ (x # NA /\ x[1] >= y[1])

C2_NeverLowered ==
    \A i \in DOMAIN all_hcps_details : \A j \in DOMAIN all_hcps_details' :
        all_hcps_details[i].NPI = all_hcps_details'[j].NPI =>
            /\ NotLower(all_hcps_details'[j].connections, all_hcps_details[i].connections)
            /\ NotLower(all_hcps_details'[j].papers, all_hcps_details[i].papers)
            /\ NotLower(all_hcps_details'[j].panels, all_hcps_details[i].panels)
            /\ NotLower(all_hcps_details'[j].trials, all_hcps_details[i].trials)

\* C2: connections is the maximum connection count reported for the id on
\* either side; papers, panels and trials are the maximum reported value
\* with missing values counted as zero; and appending an edge record and
\* re-aggregating never lowers any of the four for a provider already there.
C2_MaxReduction == [](C2_MaxOfReports) /\ [][C2_NeverLowered]_vars

\* C2 witness: provider 1 was reported with 1 and then with 2 connections and
\* aggregates to 2, and a missing Panels next to a reported -1 counts as 0.
C2_Witness ==
    /\ Len(df) = 2
    /\ df[1].NPI_1 = <<1>> /\ df[1].Connections_1 = <<1>>
    /\ df[2].NPI_1 = <<1>> /\ df[2].Connections_1 = <<2>>
    /\ df[1].Panels = <<-1>> /\ df[2].Panels = NA
    /\ all_hcps_details[1].NPI = <<1>>
    /\ all_hcps_details[1].connections = <<2>>
    /\ all_hcps_details[1].panels = <<0>>

\* The k-th side-observation of the combined sequence of t: the side-1 views
\* of all rows in row order, then the side-2 views in row order.
ObsId(t, k) == IF k <= Len(t) THEN t[k].NPI_1 ELSE t[k - Len(t)].NPI_2

ObsCell(t, k, f1, f2) == IF k <= Len(t) THEN t[k][f1] ELSE t[k - Len(t)][f2]

ObsOf(t, id) == {k \in 1..(2 * Len(t)) : ObsId(t, k) = id}

\* x is the cell of the first observation of id.
IsFirstObserved(x, t, id, f1, f2) ==
    x = ObsCell(t, SetMin(ObsOf(t, id)), f1, f2)

\* x is the first non-missing cell among the observations of id, and is
\* missing when they all are.
IsFirstNonMissing(x, t, id, f1, f2) ==
    LET present == {k \in ObsOf(t, id) : ObsCell(t, k, f1, f2) # NA}
    IN  IF present = {} THEN x = NA ELSE x = ObsCell(t, SetMin(present), f1, f2)

\* C3 as stated: influence, city and state are the values carried by the
\* first observation of the id in the combined sequence, and hcp_name is the
\* first non-missing name.
C3_FirstObservation ==
    \A i \in DOMAIN all_hcps_details :
        LET n == all_hcps_details[i] IN
        /\ IsFirstObserved(n.influence, df, n.NPI, "Influence_1", "Influence_2")
        /\ IsFirstObserved(n.city, df, n.NPI, "City1", "City2")
        /\ IsFirstObserved(n.state, df, n.NPI, "State1", "State2")
        /\ \/ IsFirstNonMissing(n.hcp_name, df, n.NPI, "HCP_1", "HCP_2")
           \/ n.hcp_name = <<"N/A">>

\* C3 (amended): influence, city and state are, each on its own, the first
\* non-missing value of that field among the observations of the id in the
\* combined sequence (missing only when every observation lacks it); a later
\* observation changes a field only when all earlier ones lack it; hcp_name
\* is the first non-missing name, 'N/A' when there is none.
C3_FirstNonMissing ==
    \A i \in DOMAIN all_hcps_details :
        LET n == all_hcps_details[i] IN
        /\ IsFirstNonMissing(n.influence, df, n.NPI, "Influence_1", "Influence_2")
        /\ IsFirstNonMissing(n.city, df, n.NPI, "City1", "City2")
        /\ IsFirstNonMissing(n.state, df, n.NPI, "State1", "State2")
        /\ IF Reported(df, n.NPI, "HCP_1", "HCP_2") = {} THEN n.hcp_name = <<"N/A">>
           ELSE IsFirstNonMissing(n.hcp_name, df, n.NPI, "HCP_1", "HCP_2")

\* C3 witness: provider 1 is first seen on side 1 of row 2 as Bob (no state)
\* and then on side 2 of row 1 as Ann: influence and city are Bob's, the
\* state is Ann's.
C3_Witness ==
    /\ Len(df) = 2
    /\ df[1].NPI_1 = <<2>> /\ df[1].NPI_2 = <<1>> /\ df[1].HCP_2 = <<"Ann">>
    /\ df[2].NPI_1 = <<1>> /\ df[2].HCP_1 = <<"Bob">> /\ df[2].NPI_2 = NA
    /\ all_hcps_details[1].influence = <<2>>
    /\ all_hcps_details[1].city = <<"c2">>
    /\ all_hcps_details[1].state = <<"s1">>

-----------------------------------------------------------------------------
(* Claims about get_filtered_nodes.                                        *)

FilterCalled == call.op = "get_filtered_nodes"

\* The row satisfies every active predicate of the criteria.
Passes(n, c) ==
    /\ c.selected_states # {} => (n.state # NA /\ n.state[1] \in c.selected_states)
    /\ c.selected_cities # {} => (n.city # NA /\ n.city[1] \in c.selected_cities)
    /\ n.connections # NA /\ n.connections[1] >= c.min_connections
    /\ n.influence # NA /\ n.influence[1] >= c.min_influence
    /\ n.papers # NA /\ n.papers[1] >= c.min_papers
    /\ n.panels # NA /\ n.panels[1] >= c.min_panels
    /\ n.trials # NA /\ n.trials[1] >= c.min_trials

\* The positions of the node table whose rows pass the predicates.
Surviving == {i \in DOMAIN all_hcps_details : Passes(all_hcps_details[i], call.criteria)}

Smaller(a, b) == IF a < b THEN a ELSE b

PositionOf(k) == CHOOSE i \in DOMAIN all_hcps_details : all_hcps_details[i] = result[k]

Unconstrained ==
    /\ FilterCalled
    /\ call.criteria = Criteria({}, {}, 0, 0, 0, 0, 0)
    /\ call.top_n = Len(all_hcps_details)

NonNegative(cell) == cell # NA /\ cell[1] >= 0

-----------------------------------------------------------------------------
(* Claim about get_filtered_edges_for_display.                             *)

EdgesCalled == call.op = "get_filtered_edges_for_display"

\* The row has both ids in the list and a strength within the range.
Selected(e) ==
    /\ e.NPI_1 # NA /\ e.NPI_1[1] \in call.filtered_node_npis
    /\ e.NPI_2 # NA /\ e.NPI_2[1] \in call.filtered_node_npis
    /\ e.Strength # NA
    /\ call.min_strength <= e.Strength[1] /\ e.Strength[1] <= call.max_strength

-----------------------------------------------------------------------------
(* Claims about generate_hcp_summary_data.                                 *)

SummaryCalled == call.op = "generate_hcp_summary_data"

\* The target id occurs in the node table.
TargetKnown ==
    \E i \in DOMAIN all_hcps_details : all_hcps_details[i].NPI = call.selected_npi

\* The rows of the edge table passed in that have the target on either side.
TargetConnections ==
    {i \in DOMAIN call.original_df :
        \/ call.original_df[i].NPI_1 = call.selected_npi
        \/ call.original_df[i].NPI_2 = call.selected_npi}

Percentile90(values) ==
    LET n == Len(values)
        whole == (9 * (n - 1)) \div 10
        tenths == (9 * (n - 1)) % 10
    IN  IF tenths = 0 THEN 10 * values[whole + 1]
        ELSE (10 - tenths) * values[whole + 1] + tenths * values[whole + 2]

\* The cell of a metric in a row of the node table; the combined activity is
\* papers + panels + trials.
Metric(n, metric) ==
    IF metric = "activity" THEN <<n.papers[1] + n.panels[1] + n.trials[1]>>
    ELSE n[metric]

\* The present values of a metric over the node table, ascending.
MetricValues(metric) ==
    LET cells == [i \in DOMAIN all_hcps_details |-> Metric(all_hcps_details[i], metric)]
    IN  SortedValues(cells, {i \in DOMAIN cells : cells[i] # NA})

\* The target's value of the metric is at least the 90th percentile of the
\* metric over the node table.
AtLeastPercentile90(metric) ==
    /\ Metric(result.hcp_data, metric) # NA
    /\ MetricValues(metric) # <<>>
    /\ 10 * Metric(result.hcp_data, metric)[1] >= Percentile90(MetricValues(metric))

TargetMetricTypes ==
    IF hasMetrics
    THEN {call.original_df[i].Metrics[1] :
             i \in {j \in TargetConnections : call.original_df[j].Metrics # NA}}
    ELSE {}

-----------------------------------------------------------------------------
(* Claim about the range of the diversity score.                           *)

\* C11: the collaboration diversity score of every summary lies in the
\* closed interval [0.0, 1.0].
C11_DiversityInUnitInterval ==
    (SummaryCalled /\ result.kind = "summary") =>
        LET score == result.collaboration_diversity_score
        IN  /\ score.m = <<>> \/ ~score.neg
            /\ ~FloatGt(score, FloatOf(1))

-----------------------------------------------------------------------------
(* Claims about the connections of the summarised provider.                *)

\* A summary was returned for the target.
Summarized == SummaryCalled /\ result.kind = "summary"

LowerInfluence ==
    {i \in DOMAIN all_hcps_details :
        /\ all_hcps_details[i].influence # NA
        /\ result.hcp_data.influence # NA
        /\ all_hcps_details[i].influence[1] < result.hcp_data.influence[1]}

OtherEndpoints ==
    ({call.original_df[i].NPI_1 : i \in TargetConnections}
        \cup {call.original_df[i].NPI_2 : i \in TargetConnections})
    \ {call.selected_npi, NA}

\* The non-missing values of a column of the node table over the other
\* endpoints.
ConnectedPlaces(column) ==
    {all_hcps_details[i][column] :
        i \in {j \in DOMAIN all_hcps_details : all_hcps_details[j].NPI \in OtherEndpoints}}
    \ {NA}

TargetMetrics ==
    IF hasMetrics
    THEN LET rows == Ascending({i \in TargetConnections :
                                    call.original_df[i].Metrics # NA})
         IN  [k \in DOMAIN rows |-> call.original_df[rows[k]].Metrics[1]]
    ELSE <<>>

\* Metric type a is more frequent than b among the direct connections, or as
\* frequent and first seen earlier.
Before(a, b) ==
    LET Count(m) == Cardinality({k \in DOMAIN TargetMetrics : TargetMetrics[k] = m})
        First(m) == SetMin({k \in DOMAIN TargetMetrics : TargetMetrics[k] = m})
    IN  \/ Count(a) > Count(b)
        \/ Count(a) = Count(b) /\ First(a) < First(b)

\* C18: dominant_metrics_text names the two most frequent non-missing metric
\* types of the direct connections, joined by " and ", the more frequent
\* first and equally frequent ones in the order of their first appearance;
\* the only type when one occurs; and it is "no specific dominant metric
\* identified" when no direct connection has a metric type.
C18_DominantMetrics ==
    Summarized =>
        LET types == Range(TargetMetrics)
            text == result.dominant_metrics_text
        IN  IF types = {} THEN text = "no specific dominant metric identified"
            ELSE IF Cardinality(types) = 1 THEN \E a \in types : text = a
            ELSE \E a, b \in types :
                    /\ a # b
                    /\ Before(a, b)
                    /\ \A c \in types \ {a, b} : Before(b, c)
                    /\ text = a \o " and " \o b

\* The row of the node table of an entry of top_connections_list.
EntryNode(entry) ==
    all_hcps_details[CHOOSE i \in DOMAIN all_hcps_details :
                         all_hcps_details[i].NPI = entry.npi]

\* The fixed wording of the five metric categories.
CategoryWording ==
    [m \in {"Publishers", "Affiliations", "Promotional Events", "Clinical Trials",
            "Panels"} |->
        CASE m = "Publishers" -> "Co-authored on publications."
          [] m = "Affiliations" -> "Shared professional affiliations."
          [] m = "Promotional Events" -> "Collaborated on promotional events."
          [] m = "Clinical Trials" -> "Participated in clinical trials."
          [] m = "Panels" -> "Contributed to advisory panels."]

ResolvedConnections ==
    LET Other(e) == IF e.NPI_1 = call.selected_npi THEN e.NPI_2 ELSE e.NPI_1
    IN  Ascending({i \in TargetConnections :
                      \E n \in DOMAIN all_hcps_details :
                          all_hcps_details[n].NPI = Other(call.original_df[i])})

\* 0.6 * influence + 0.4 * strength of an entry, times 10.
Composite(entry) == 6 * entry.influence[1] + 4 * entry.strength[1]

Scored(entry) == entry.influence # NA /\ entry.strength # NA

\* C19: top_connections_list has one entry per direct connection whose other
\* end has a row in the node table and none for the others; its entries are
\* in non-increasing order of 0.6 * influence + 0.4 * strength, and entries
\* with the same score keep the order of their rows in the edge table.
C19_TopConnectionsOrdered ==
    Summarized =>
        LET list == result.top_connections_list
            rows == ResolvedConnections
            Other(e) == IF e.NPI_1 = call.selected_npi THEN e.NPI_2 ELSE e.NPI_1
        IN  /\ Len(list) = Len(rows)
            /\ \A i, j \in DOMAIN list :
                  (i < j /\ Scored(list[i]) /\ Scored(list[j])) =>
                      Composite(list[i]) >= Composite(list[j])
            /\ \E place \in [DOMAIN list -> DOMAIN rows] :
                  /\ \A i, j \in DOMAIN list : i # j => place[i] # place[j]
                  /\ \A i \in DOMAIN list :
                        /\ list[i].npi = Other(call.original_df[rows[place[i]]])
                        /\ list[i].strength = call.original_df[rows[place[i]]].Strength
                  /\ \A i, j \in DOMAIN list :
                        (i < j /\ Scored(list[i]) /\ Scored(list[j])
                            /\ Composite(list[i]) = Composite(list[j])) =>
                            place[i] < place[j]

-----------------------------------------------------------------------------
(* Claim about repeated calls.                                             *)

\* C13: over any sequence of calls, the value each of the four functions
\* returns is determined by the arguments of that call: it is a result of the
\* function for the tables and parameters passed in, never one remembered
\* from a call with another table.
C13_ResultFromArguments ==
    /\ call.op = "get_all_hcps_details" => result = get_all_hcps_details(df)
    /\ call.op = "get_filtered_nodes" =>
          result = get_filtered_nodes(all_hcps_details, call.top_n,
                       call.criteria.selected_states, call.criteria.selected_cities,
                       call.criteria.min_connections, call.criteria.min_influence,
                       call.criteria.min_papers, call.criteria.min_panels,
                       call.criteria.min_trials, call.sort_by)
    /\ call.op = "get_filtered_edges_for_display" =>
          result = get_filtered_edges_for_display(df, call.filtered_node_npis,
                       call.min_strength, call.max_strength)
    /\ call.op = "generate_hcp_summary_data" =>
          result \in generate_hcp_summary_data(call.selected_npi, all_hcps_details,
                                               call.original_df, hasMetrics)

-----------------------------------------------------------------------------
(* Claim about empty data.                                                 *)

-----------------------------------------------------------------------------
(* Claim about the columns of the input.                                   *)

\* The columns main() lists as optional.
OptionalColumns == {"Papers", "Panels", "Trials", "Metrics"}

\* Every column of the CSV that the functions read.
ExpectedColumns == hcp_cols \cup {"Strength", "Metrics"}

\* A rerun of main() on a table with rows has gone through its load step.
Reran == call.op \in {"main", "get_all_hcps_details"} /\ df # <<>>

\* C15: a table that lacks only optional columns (Papers, Panels, Trials,
\* Metrics) is accepted: the aggregation returns a node table in which
\* papers, panels and trials are 0 wherever their column is absent, and a
\* summary of a table without Metrics finds no metric type; a table that
\* lacks a required column ends in the error message that names the column.
C15_OptionalColumns ==
    /\ Reran =>
          LET missing == ExpectedColumns \ Columns(df)
          IN  IF missing \subseteq OptionalColumns
              THEN /\ call.op = "get_all_hcps_details"
                   /\ result = all_hcps_details
                   /\ \A i \in DOMAIN result :
                         /\ "Papers" \in missing => result[i].papers = <<0>>
                         /\ "Panels" \in missing => result[i].panels = <<0>>
                         /\ "Trials" \in missing => result[i].trials = <<0>>
              ELSE /\ call.op = "main"
                   /\ result = MissingColumnError(missing \ OptionalColumns)
    /\ (Summarized /\ ~hasMetrics) =>
          /\ result.dominant_metrics_text = DominantMetricsText(<<>>)
          /\ result.collaboration_diversity_score = Float0

-----------------------------------------------------------------------------
(* Claim about the metric breakdown.                                       *)

\* The target's direct connections with the metric type of the bucket: one
\* of the five categories, or anything else for Other/Undefined.
InBucket(bucket) ==
    {k \in DOMAIN TargetMetrics :
        IF bucket = "Other/Undefined" THEN TargetMetrics[k] \notin Range(defined_metrics)
        ELSE TargetMetrics[k] = bucket}

Buckets == Range(defined_metrics) \cup {"Other/Undefined"}

\* The percentage, in tenths, is the count over the total to the nearest tenth.
IsShareOf(tenths, count, total) ==
    /\ 2 * (tenths * total - 1000 * count) <= total
    /\ 2 * (1000 * count - tenths * total) <= total

\* The tenths on either side of the share.
NearestTenths(count, total) ==
    {(1000 * count) \div total, (1000 * count) \div total + 1}

\* Category a is at least as frequent as every category outside the set.
LeadsAllBut(a, others) ==
    \A c \in Range(defined_metrics) \ others :
        Cardinality(InBucket(a)) >= Cardinality(InBucket(c))

\* The interpretation names a category as the focus.
NamesCategory(text) ==
    \/ \E a \in Range(defined_metrics) : text = FocusOn(a)
    \/ \E a \in Buckets \cup {"diverse engagement"}, b \in Range(defined_metrics) :
          text = FocusOnWith(a, b) \/ text = FocusOnWith(b, a)

-----------------------------------------------------------------------------
(* Claim about the pages of a session.                                     *)

\* C22: whenever the session's page is 'summary', selected_hcp_npi is not
\* None and summary_data is the summary generated for that id; and the page
\* becomes 'summary' only by a click on a "Go to HCP Summary" button while a
\* provider is selected.
C22_SummaryPageHasSelection ==
    /\ session.page = "summary" =>
          /\ session.selected_hcp_npi # NA
          /\ session.summary_data
                \in generate_hcp_summary_data(session.selected_hcp_npi, all_hcps_details,
                                              df, hasMetrics)
          /\ session.summary_data # None
          /\ call.op = "main" /\ call.event \in {"sidebar_go", "main_go"}

====
